---- MODULE Spec2Model ----
(***************************************************************************)
(* Model of the tick generator and the market-data processor of           *)
(* src/src/cpp/src/hft/market_data_processor.cpp (the file also holds the *)
(* header market_data_processor.hpp from line 344 on).                    *)
(*                                                                         *)
(* Number representation.  The 64-bit RNG word is a function from bit     *)
(* positions 0..63 to BOOLEAN, so xorshift64 is computed bit for bit.     *)
(* float values are fixed-point integers, one unit per quantity:          *)
(*   prices (current_price, last_price, bid, ask, spread in dollars)      *)
(*                              1 unit = 0.0001 dollar ("pips")           *)
(*   volatility                 1 unit = 0.0001                            *)
(*   price_trend                1 unit = 0.00001                           *)
(*   price_change (generator)   1 unit = 0.000001                          *)
(*   spread_bps                 1 unit = 0.001 basis point                 *)
(*   venue fees                 1 unit = 0.0001                            *)
(*   features price_change, volume_ratio, momentum_1min                    *)
(*                              1 unit = 0.0001                            *)
(*   volatility_5min (a price deviation, or the default 0.02)              *)
(*                              1 unit = 0.0001                            *)
(*   liquidity_score, venue_preference                                     *)
(*                              1 unit = 0.001                             *)
(*   position_risk              1 unit = 0.1 dollar                        *)
(*   market_impact_estimate     1 unit = 0.0001                            *)
(*   execution_cost_estimate    1 unit = 0.0005                            *)
(*   the two percentages        1 unit = 0.01 percent                      *)
(* Products round toward minus infinity.  uint32 values of 2^31 and more  *)
(* (they arise only from 0u - 1 and from a modulo by zero) are written as *)
(* their two's-complement representative v - 2^32.  Timestamps count      *)
(* nanoseconds from the construction of the generator.                    *)
(***************************************************************************)
EXTENDS Integers, Sequences, FiniteSets, TLC

VARIABLES
  symbols,                  \* symbols_ : array<SymbolState, MAX_SYMBOLS>
  venues,                   \* venues_  : array<VenueInfo, MAX_VENUES>
  num_symbols,              \* num_symbols_
  num_venues,               \* num_venues_
  rng_state,                \* rng_state_
  total_ticks_generated,    \* total_ticks_generated_
  generation_time_ns,       \* generation_time_ns_
  target_tick_interval_ns,  \* target_tick_interval_ns_
  stats,                    \* MarketDataProcessor::stats_
  clock,                    \* high_resolution_clock::now()
  fault,                    \* "none", or the signal that ended the process
  call,                     \* the latest call and its arguments
  ret,                      \* what the latest call returned or wrote
  gt,                       \* the locals of the latest generate_tick
  steps,                    \* number of calls made so far
  stream,                   \* the TickStream that create_stream() returned
  threads                   \* the calls in progress on concurrent threads

vars == <<symbols, venues, num_symbols, num_venues, rng_state,
          total_ticks_generated, generation_time_ns, target_tick_interval_ns,
          stats, clock, fault, call, ret, gt, steps, stream, threads>>

genvars == <<symbols, venues, num_symbols, num_venues, rng_state,
             total_ticks_generated, generation_time_ns, target_tick_interval_ns>>

(***************************************************************************)
(* Bounds of the model.                                                    *)
(***************************************************************************)
MaxCalls == 2
MaxWalk == 214
MaxBatch == 3

(***************************************************************************)
(* Arithmetic helpers.                                                     *)
(***************************************************************************)
Max(a, b) == IF a >= b THEN a ELSE b

Min(a, b) == IF a <= b THEN a ELSE b

Abs(a) == IF a < 0 THEN 0 - a ELSE a

Bit == 0..63

\* TRUE, once v is computed.  TLC computes a function and an operator
\* argument only when something reads it; the comparison makes it compute v
\* here, so that a chain of RNG steps or of loop iterations is computed step
\* by step.  (For the same reason the intermediate results of an operation
\* are passed on as operator arguments: TLC computes an argument once.)
Evaluated(v) == v = v

Eval(v) == IF Evaluated(v) THEN v ELSE v

\* the 64-bit word w3 w2 w1 w0 (four 16-bit words, w3 the highest)
Word64(w3, w2, w1, w0) ==
  [i \in Bit |-> ((<<w0, w1, w2, w3>>[(i \div 16) + 1] \div (2 ^ (i % 16))) % 2) = 1]

\* bits 4k+3 .. 4k of x as a number
Nibble(x, k) ==
  (IF x[4 * k] THEN 1 ELSE 0) + (IF x[4 * k + 1] THEN 2 ELSE 0)
    + (IF x[4 * k + 2] THEN 4 ELSE 0) + (IF x[4 * k + 3] THEN 8 ELSE 0)

\* x & 0xFFFFFF
Low24(x) ==
  Nibble(x, 0) + 16 * Nibble(x, 1) + 256 * Nibble(x, 2) + 4096 * Nibble(x, 3)
    + 65536 * Nibble(x, 4) + 1048576 * Nibble(x, 5)

RECURSIVE ModFrom(_, _, _)
\* (x >> 4k) % m
ModFrom(x, m, k) ==
  IF k > 15 THEN 0 ELSE (16 * ModFrom(x, m, k + 1) + Nibble(x, k)) % m

\* x % m for the 64-bit word x and 0 < m < 2^27
ModU64(x, m) == ModFrom(x, m, 0)

\* static_cast<uint32_t>(x), as its two's-complement representative
AsUint32(x) ==
  Low24(x) + 16777216 * (Nibble(x, 6) + 16 * (Nibble(x, 7) % 8))
    - (IF x[31] THEN 1073741824 ELSE 0) - (IF x[31] THEN 1073741824 ELSE 0)

(***************************************************************************)
(* Pseudo-random core.                                                     *)
(***************************************************************************)
\* the word xorshift64() stores in rng_state_ and returns
xorshift64(x) ==
  LET a == Eval([i \in Bit |-> IF i >= 13 THEN x[i] # x[i - 13] ELSE x[i]])
      b == Eval([i \in Bit |-> IF i <= 56 THEN a[i] # a[i + 7] ELSE a[i]])
  IN Eval([i \in Bit |-> IF i >= 17 THEN b[i] # b[i - 17] ELSE b[i]])

RECURSIVE Draws(_, _)
DrawsAfter(r, k) == <<r>> \o Draws(r, k)

\* the words that k successive calls of xorshift64() return, from state x
Draws(x, k) == IF k = 0 THEN <<>> ELSE DrawsAfter(xorshift64(x), k - 1)

\* fast_random_float on the word r that xorshift64() returned; min and max
\* in the unit of the quantity drawn.  The product is taken on the high 16
\* of the 24 bits of the draw.
FastRandomFloat(r, min, max) ==
  min + ((Low24(r) \div 256) * (max - min)) \div 65536

\* max - min + 1 is 0 in uint32 arithmetic: the modulo divides by zero
DivideByZero(min, max) == max - min + 1 = 0

\* fast_random_uint32 on the word r that xorshift64() returned.  With a zero
\* divisor this is the outcome of a build whose division does not trap
\* (aarch64: x % 0 = x); min is 0 at every call whose range wraps.
FastRandomUint32(r, min, max) ==
  IF DivideByZero(min, max) THEN AsUint32(r)
  ELSE min + ModU64(r, max - min + 1)

(***************************************************************************)
(* Static tables.                                                          *)
(***************************************************************************)
MAX_SYMBOLS == 64

MAX_VENUES == 8

DEFAULT_SYMBOLS ==
  <<"AAPL", "MSFT", "GOOGL", "TSLA", "NVDA", "META", "AMZN", "NFLX",
    "JPM", "BAC", "WFC", "GS", "C", "JNJ", "PFE", "UNH", "ABBV",
    "PG", "KO", "XOM", "CVX", "DIS", "SPY", "QQQ", "IWM", "GLD", "TLT">>

Venue(name, maker_fee, taker_fee, rebate, base_latency_us, jitter_range_us) ==
  [name |-> name, maker_fee |-> maker_fee, taker_fee |-> taker_fee,
   rebate |-> rebate, base_latency_us |-> base_latency_us,
   jitter_range_us |-> jitter_range_us]

DEFAULT_VENUES ==
  <<Venue("NYSE", 3, 3, 1, 250, 50),
    Venue("NASDAQ", 3, 3, 1, 230, 45),
    Venue("ARCA", 2, 3, 2, 240, 40),
    Venue("IEX", 0, 9, 0, 400, 100),
    Venue("CBOE", 2, 3, 1, 280, 60)>>

BASE_PRICES ==
  <<2272100, 5217500, 2010000, 3391800, 1820900, 7655200, 2213700, 12183700,
    2897100, 461900, 776100, 7193300, 923100, 1740400, 246100, 2524100, 1986400,
    1550300, 707900, 1058800, 1535400, 1125800, 6358200, 5727500, 2202800,
    3086000, 874100>>

TICK_MULTIPLIERS ==
  <<5, 5, 4, 6, 6, 5, 4, 4, 3, 3, 3, 3, 3, 2, 2, 3, 2, 2, 2, 3, 3, 2, 8, 7, 6, 2, 1>>

\* 100.0f, the price of a symbol past the end of BASE_PRICES
DEFAULT_PRICE == 1000000

\* 3, the weight of a symbol past the end of TICK_MULTIPLIERS
DEFAULT_MULTIPLIER == 3

\* 0.01f, the floor of generate_tick's price walk
PRICE_FLOOR == 100

\* 500.0f, the price above which the spread is doubled
WIDE_SPREAD_PRICE == 5000000

\* an element of symbols_ / venues_ that initialize_symbols has not written
\* yet (its numbers are indeterminate in the program; the constructor writes
\* the elements of the default lists, and no call reads an element past the
\* ones that were written)
UnsetSymbol ==
  [symbol_name |-> "", current_price |-> 0, volatility |-> 0, avg_volume |-> 0,
   tick_multiplier |-> 0, last_update_ns |-> 0, price_trend |-> 0]

UnsetVenue == Venue("", 0, 0, 0, 0, 0)

NoTick == [none |-> TRUE]

NoLocals == [none |-> TRUE]

\* no stream was created
NoStream == [none |-> TRUE]

\* the threads that call into one generator or one processor
ThreadIds == {1, 2}

\* a thread outside every call
Idle == [op |-> "idle"]

\* no call is in progress on any thread; turn is the thread that ran last,
\* preemptions counts the times a thread was interrupted in a call, and
\* completed counts the generate_tick (or process_tick) calls that returned
\* since construction or since the counters were last reset
NoThreads ==
  [calls |-> [t \in ThreadIds |-> Idle], turn |-> 0, preemptions |-> 0,
   completed |-> 0]

(***************************************************************************)
(* Symbol/venue registry.                                                  *)
(***************************************************************************)
\* one iteration that leaves last_update_ns as it finds it
InitSymbolKeepingUpdate(syms, symbol_names, i, r) ==
  [symbols |->
     [syms EXCEPT ![i] =
        [symbol_name |-> symbol_names[i + 1],
         current_price |->
           IF i < Len(BASE_PRICES) THEN BASE_PRICES[i + 1] ELSE DEFAULT_PRICE,
         volatility |-> FastRandomFloat(r[1], 1500, 4500),
         avg_volume |-> FastRandomUint32(r[2], 10000, 100000),
         tick_multiplier |->
           IF i < Len(TICK_MULTIPLIERS) THEN TICK_MULTIPLIERS[i + 1]
           ELSE DEFAULT_MULTIPLIER,
         last_update_ns |-> syms[i].last_update_ns,
         price_trend |-> FastRandomFloat(r[3], -2000, 2000)]],
   rng |-> r[3]]

\* one iteration of the loop of initialize_symbols; r are its three draws
InitSymbol(syms, symbol_names, i, r) ==
  [symbols |->
     [syms EXCEPT ![i] =
        [symbol_name |-> symbol_names[i + 1],
         current_price |->
           IF i < Len(BASE_PRICES) THEN BASE_PRICES[i + 1] ELSE DEFAULT_PRICE,
         volatility |-> FastRandomFloat(r[1], 1500, 4500),
         avg_volume |-> FastRandomUint32(r[2], 10000, 100000),
         tick_multiplier |->
           IF i < Len(TICK_MULTIPLIERS) THEN TICK_MULTIPLIERS[i + 1]
           ELSE DEFAULT_MULTIPLIER,
         last_update_ns |-> 0,
         price_trend |-> FastRandomFloat(r[3], -2000, 2000)]],
   rng |-> r[3]]

RECURSIVE InitSymbolLoop(_, _, _, _)
\* the iterations i .. n-1 of the loop of initialize_symbols, from the
\* symbols and RNG state of done; the first half of the iterations is
\* computed, as far as its RNG state, before the second
InitSymbolLoop(done, symbol_names, i, n) ==
  IF i >= n \/ ~Evaluated(done.rng) THEN done
  ELSE IF n - i = 1
    THEN InitSymbol(done.symbols, symbol_names, i, Draws(done.rng, 3))
    ELSE InitSymbolLoop(InitSymbolLoop(done, symbol_names, i, (i + n) \div 2),
                        symbol_names, (i + n) \div 2, n)

\* the registry after the symbol loop ended as done
RegistryOf(done, vens, ns, nv, venue_configs) ==
  [symbols |-> done.symbols,
   venues |-> [i \in 0..(MAX_VENUES - 1) |->
                 IF i < nv THEN venue_configs[i + 1] ELSE vens[i]],
   num_symbols |-> ns,
   num_venues |-> nv,
   rng |-> done.rng]

\* num_symbols_ = symbol_names.size(), without the cap
SymbolCountUncapped(symbol_names) == Len(symbol_names)

\* num_symbols_ = std::min(symbol_names.size(), MAX_SYMBOLS)
SymbolCount(symbol_names) == Min(Len(symbol_names), MAX_SYMBOLS)

\* num_venues_ = std::min(venue_configs.size(), MAX_VENUES)
VenueCount(venue_configs) == Min(Len(venue_configs), MAX_VENUES)

\* initialize_symbols: the registry it leaves, from the registry it finds
initialize_symbols(syms, vens, rng, symbol_names, venue_configs) ==
  RegistryOf(InitSymbolLoop([symbols |-> syms, rng |-> rng], symbol_names, 0,
                            SymbolCount(symbol_names)),
             vens, SymbolCount(symbol_names), VenueCount(venue_configs),
             venue_configs)

\* the interval without the default for a frequency of 0
TargetIntervalOfOne(ticks_per_second) == 1000000000 \div Max(ticks_per_second, 1)

\* set_target_frequency: the interval it stores
TargetInterval(ticks_per_second) ==
  IF ticks_per_second > 0 THEN 1000000000 \div ticks_per_second ELSE 1000000

(***************************************************************************)
(* Tick generator.                                                         *)
(***************************************************************************)
RECURSIVE TotalWeightFrom(_, _, _)
TotalWeightFrom(syms, i, n) ==
  IF i >= n THEN 0 ELSE syms[i].tick_multiplier + TotalWeightFrom(syms, i + 1, n)

\* the first loop of generate_tick
TotalWeight(syms, n) == TotalWeightFrom(syms, 0, n)

\* a scan that also stops at a cumulative weight equal to the draw
ScanHitOrEqual(random_weight, cumulative_weight) ==
  random_weight <= cumulative_weight

\* the comparison that ends the weighted scan
ScanHit(random_weight, cumulative_weight) == random_weight < cumulative_weight

RECURSIVE ScanFrom(_, _, _, _, _)
ScanFrom(syms, n, random_weight, i, cumulative_weight) ==
  IF i >= n THEN 0
  ELSE IF ScanHit(random_weight, cumulative_weight + syms[i].tick_multiplier) THEN i
  ELSE ScanFrom(syms, n, random_weight, i + 1,
                cumulative_weight + syms[i].tick_multiplier)

\* the second loop of generate_tick: selected_symbol (0 when the scan ends
\* without a hit)
SelectSymbol(syms, n, random_weight) == ScanFrom(syms, n, random_weight, 0, 0)

\* lines 85-100 of generate_tick for the draw r1
WeightedDraw(syms, n, r1) ==
  LET total_weight == TotalWeight(syms, n)
      random_weight == FastRandomUint32(r1, 0, total_weight - 1)
  IN [total_weight |-> total_weight,
      random_weight |-> random_weight,
      selected_symbol |-> SelectSymbol(syms, n, random_weight)]

\* price * change, change in units of 0.000001
MulPpm(price, change) ==
  ((price \div 1000) * change) \div 1000 + ((price % 1000) * change) \div 1000000

\* price_change of generate_tick for the draw r
PriceChange(r, symbol) ==
  FastRandomFloat(r, 0 - symbol.volatility, symbol.volatility)
    + symbol.price_trend \div 100

\* the price walk without the floor of line 109
NewPriceUnfloored(current_price, price_change) ==
  current_price + MulPpm(current_price, price_change)

\* new_price of generate_tick, floored
NewPrice(current_price, price_change) ==
  Max(current_price + MulPpm(current_price, price_change), PRICE_FLOOR)

\* the spread doubled by the price this call computed
SpreadBpsOfNewPrice(drawn, current_price, new_price) ==
  IF new_price > WIDE_SPREAD_PRICE THEN 2 * drawn ELSE drawn

\* spread_bps of generate_tick from the drawn spread: line 113 reads
\* symbol.current_price, which the call updates only at line 129
SpreadBps(drawn, current_price, new_price) ==
  IF current_price > WIDE_SPREAD_PRICE THEN 2 * drawn ELSE drawn

\* spread_dollars = (spread_bps / 10000.0f) * new_price
SpreadDollars(spread_bps, new_price) ==
  ((new_price \div 1000) * spread_bps) \div 10000
    + ((new_price % 1000) * spread_bps) \div 10000000

\* lines 102-153 of generate_tick: the selection w made, r the seven draws
TickOfSymbol(g, nven, d, ub, r, w) ==
  LET symbol == g.symbols[w.selected_symbol]
      price_change == PriceChange(r[2], symbol)
      new_price == NewPrice(symbol.current_price, price_change)
      drawn == FastRandomFloat(r[3], 500, 3000)
      spread_bps == SpreadBps(drawn, symbol.current_price, new_price)
      spread_dollars == SpreadDollars(spread_bps, new_price)
      volume == FastRandomUint32(r[4], symbol.avg_volume \div 10, symbol.avg_volume * 2)
      venue_idx == FastRandomUint32(r[5], 0, nven - 1)
      now == g.clock + d
  IN IF ub = "trap" /\ DivideByZero(0, w.total_weight - 1)
       THEN [g EXCEPT !.trap = TRUE, !.rng = r[1]]
     ELSE IF ub = "trap" /\ DivideByZero(0, nven - 1)
       THEN [g EXCEPT !.trap = TRUE, !.rng = r[5]]
     ELSE [symbols |-> [g.symbols EXCEPT ![w.selected_symbol] =
                          [symbol EXCEPT !.current_price = new_price,
                                         !.last_update_ns = now]],
           rng |-> r[7],
           total_ticks |-> g.total_ticks + 1,
           time_ns |-> g.time_ns + d,
           clock |-> now,
           trap |-> FALSE,
           tick |-> [timestamp_ns |-> now,
                     symbol_id |-> w.selected_symbol,
                     bid_price |-> new_price - spread_dollars \div 2,
                     ask_price |-> new_price + spread_dollars \div 2,
                     bid_size |-> FastRandomUint32(r[6], 100, 10000),
                     ask_size |-> FastRandomUint32(r[7], 100, 10000),
                     last_price |-> new_price,
                     volume |-> volume,
                     venue_id |-> venue_idx % 256,
                     spread_bps |-> spread_bps],
           locals |-> [total_weight |-> w.total_weight,
                       random_weight |-> w.random_weight,
                       selected_symbol |-> w.selected_symbol,
                       current_price |-> symbol.current_price,
                       price_change |-> price_change,
                       drawn_spread |-> drawn]]

TickFromDraws(g, nsym, nven, d, ub, r) ==
  TickOfSymbol(g, nven, d, ub, r, WeightedDraw(g.symbols, nsym, r[1]))

\* One call of generate_tick on the generator g = [symbols, rng, total_ticks,
\* time_ns, clock, trap, tick, locals], taking d ns of wall-clock time; ub is
\* what the build does at an integer division by zero.
generate_tick(g, nsym, nven, d, ub) ==
  IF g.trap THEN g ELSE TickFromDraws(g, nsym, nven, d, ub, Draws(g.rng, 7))

\* a stamp of the jitter alone, the interval left out
BatchStampOfJitter(g1, interval, previous, r) ==
  [g1 EXCEPT !.rng = r,
             !.tick = [g1.tick EXCEPT !.timestamp_ns =
                         previous.timestamp_ns
                           + FastRandomUint32(r, 0, interval \div 10)]]

\* the jitter draw of generate_tick_batch on the tick that g1 holds
BatchStamp(g1, interval, previous, r) ==
  [g1 EXCEPT !.rng = r,
             !.tick = [g1.tick EXCEPT !.timestamp_ns =
                         previous.timestamp_ns
                           + (interval + FastRandomUint32(r, 0, interval \div 10))]]

RECURSIVE BatchLoop(_, _, _, _, _, _, _, _, _)
\* the rest of iteration i of generate_tick_batch, g1 the generator after its
\* generate_tick
BatchWrite(g1, nsym, nven, interval, d, ub, i, count, buffer) ==
  IF g1.trap THEN [g |-> g1, buffer |-> buffer]
  ELSE IF i > 0
    THEN BatchLoop(BatchStamp(g1, interval, buffer[i], xorshift64(g1.rng)),
                   nsym, nven, interval, d, ub, i, count, buffer)
    ELSE BatchLoop(g1, nsym, nven, interval, d, ub, i, count, buffer)

\* the loop of generate_tick_batch from the point where output_buffer[i] is
\* written; buffer holds output_buffer[0 .. i-1]
BatchLoop(g, nsym, nven, interval, d, ub, i, count, buffer) ==
  IF i + 1 >= count THEN [g |-> g, buffer |-> Append(buffer, g.tick)]
  ELSE BatchWrite(generate_tick(g, nsym, nven, d, ub), nsym, nven, interval, d, ub,
                  i + 1, count, Append(buffer, g.tick))

\* generate_tick_batch(output_buffer, count): the generator it leaves and the
\* ticks it wrote
generate_tick_batch(g, nsym, nven, interval, d, ub, count) ==
  IF count = 0 THEN [g |-> g, buffer |-> <<>>]
  ELSE BatchWrite(generate_tick(g, nsym, nven, d, ub), nsym, nven, interval, d, ub,
                  0, count, <<>>)

(***************************************************************************)
(* Calls on the generator.                                                 *)
(***************************************************************************)
\* the generator as a call of generate_tick finds it
Generator ==
  [symbols |-> symbols, rng |-> rng_state, total_ticks |-> total_ticks_generated,
   time_ns |-> generation_time_ns, clock |-> clock, trap |-> FALSE,
   tick |-> NoTick, locals |-> NoLocals]

\* what an integer division by zero can do: raise SIGFPE (x86) or go on with
\* the dividend as remainder (aarch64)
DivisionOutcomes(nsym, nven) ==
  IF nsym = 0 \/ nven = 0 THEN {"trap", "wrap"} ELSE {"wrap"}

\* wall-clock durations of one generate_tick or process_tick, in ns
Durations == {120, 350}

NoStats == [none |-> TRUE]

NoFeatures == [none |-> TRUE]

NoRisk == [none |-> TRUE]

NoReturn ==
  [code |-> -1, tick |-> NoTick, buffer |-> <<>>, stats |-> NoStats,
   features |-> NoFeatures, risk |-> NoRisk]

\* the generator fields with the update time written to every symbol
CommitStampingAll(g) ==
  /\ symbols' = [i \in DOMAIN g.symbols |->
                   [g.symbols[i] EXCEPT !.last_update_ns = g.clock]]
  /\ rng_state' = g.rng
  /\ total_ticks_generated' = g.total_ticks
  /\ generation_time_ns' = g.time_ns
  /\ clock' = g.clock
  /\ fault' = IF g.trap THEN "SIGFPE" ELSE "none"
  /\ gt' = g.locals

\* the generator fields after a call that left the generator g
Commit(g) ==
  /\ symbols' = g.symbols
  /\ rng_state' = g.rng
  /\ total_ticks_generated' = g.total_ticks
  /\ generation_time_ns' = g.time_ns
  /\ clock' = g.clock
  /\ fault' = IF g.trap THEN "SIGFPE" ELSE "none"
  /\ gt' = g.locals

\* generate_tick returned (or the process died in it)
TickReturned(g, code) ==
  /\ Commit(g)
  /\ ret' = IF g.trap THEN NoReturn
            ELSE [NoReturn EXCEPT !.code = code, !.tick = g.tick]

\* MarketTick HighFrequencyTickGenerator::generate_tick()
GenerateTick(d) ==
  /\ fault = "none"
  /\ \E ub \in DivisionOutcomes(num_symbols, num_venues) :
       /\ TickReturned(generate_tick(Generator, num_symbols, num_venues, d, ub), -1)
       /\ call' = [op |-> "generate_tick", ub |-> ub]
  /\ steps' = steps + 1
  /\ UNCHANGED <<venues, num_symbols, num_venues, target_tick_interval_ns, stats>>
  /\ UNCHANGED <<stream, threads>>

\* generate_tick_batch returned b = [g, buffer]; started is the clock at entry
BatchReturned(b, started) ==
  /\ Commit([b.g EXCEPT !.time_ns = b.g.time_ns + (b.g.clock - started)])
  /\ ret' = IF b.g.trap THEN NoReturn ELSE [NoReturn EXCEPT !.buffer = b.buffer]

\* void generate_tick_batch(MarketTick* output_buffer, size_t count)
GenerateTickBatch(count, d) ==
  /\ fault = "none"
  /\ \E ub \in (IF count = 0 THEN {"wrap"}
                ELSE DivisionOutcomes(num_symbols, num_venues)) :
       /\ BatchReturned(generate_tick_batch(Generator, num_symbols, num_venues,
                                            target_tick_interval_ns, d, ub, count),
                        clock)
       /\ call' = [op |-> "generate_tick_batch", count |-> count, ub |-> ub]
  /\ steps' = steps + 1
  /\ UNCHANGED <<venues, num_symbols, num_venues, target_tick_interval_ns, stats>>
  /\ UNCHANGED <<stream, threads>>

\* initialize_symbols returned the registry reg
Initialized(reg) ==
  /\ symbols' = reg.symbols
  /\ venues' = reg.venues
  /\ num_symbols' = reg.num_symbols
  /\ num_venues' = reg.num_venues
  /\ rng_state' = reg.rng

\* void initialize_symbols(symbol_names, venue_configs)
InitializeSymbols(symbol_names, venue_configs) ==
  /\ fault = "none"
  /\ Initialized(initialize_symbols(symbols, venues, rng_state, symbol_names,
                                    venue_configs))
  /\ call' = [op |-> "initialize_symbols", symbol_count |-> Len(symbol_names),
              venue_count |-> Len(venue_configs), symbol_names |-> symbol_names,
              venue_configs |-> venue_configs]
  /\ ret' = NoReturn
  /\ gt' = NoLocals
  /\ steps' = steps + 1
  /\ UNCHANGED <<total_ticks_generated, generation_time_ns,
                 target_tick_interval_ns, stats, clock, fault>>
  /\ UNCHANGED <<stream, threads>>

\* void set_target_frequency(uint32_t ticks_per_second)
SetTargetFrequency(ticks_per_second) ==
  /\ fault = "none"
  /\ target_tick_interval_ns' = TargetInterval(ticks_per_second)
  /\ call' = [op |-> "set_target_frequency", ticks_per_second |-> ticks_per_second]
  /\ ret' = NoReturn
  /\ gt' = NoLocals
  /\ steps' = steps + 1
  /\ UNCHANGED <<symbols, venues, num_symbols, num_venues, rng_state,
                 total_ticks_generated, generation_time_ns, stats, clock, fault>>
  /\ UNCHANGED <<stream, threads>>

\* void reset_performance_counters()
ResetPerformanceCounters ==
  /\ fault = "none"
  /\ total_ticks_generated' = 0
  /\ generation_time_ns' = 0
  /\ call' = [op |-> "reset_performance_counters"]
  /\ ret' = NoReturn
  /\ gt' = NoLocals
  /\ steps' = steps + 1
  /\ UNCHANGED <<symbols, venues, num_symbols, num_venues, rng_state,
                 target_tick_interval_ns, stats, clock, fault>>
  /\ UNCHANGED <<stream, threads>>

\* (a * 1000000000) / b without leaving 32 bits, for a * (b - 1) < 2^31
PerSecond(a, b) == a * (1000000000 \div b) + (a * (1000000000 % b)) \div b

\* the PerformanceStats that get_performance_stats computes;
\* cpu_efficiency_percent in units of 0.01 percent
PerformanceStats(total_ticks, total_time_ns, interval) ==
  LET avg == IF total_ticks > 0 THEN total_time_ns \div total_ticks ELSE 0
  IN [total_ticks |-> total_ticks,
      avg_generation_time_ns |-> avg,
      ticks_per_second |->
        IF total_time_ns > 0 THEN PerSecond(total_ticks, total_time_ns) ELSE 0,
      cpu_efficiency_percent |->
        IF interval > 0 THEN (avg * 10000) \div interval ELSE 0]

\* PerformanceStats get_performance_stats() const
GetPerformanceStats ==
  /\ fault = "none"
  /\ ret' = [NoReturn EXCEPT !.stats =
               PerformanceStats(total_ticks_generated, generation_time_ns,
                                target_tick_interval_ns)]
  /\ call' = [op |-> "get_performance_stats"]
  /\ gt' = NoLocals
  /\ steps' = steps + 1
  /\ UNCHANGED <<genvars, stats, clock, fault>>
  /\ UNCHANGED <<stream, threads>>

(***************************************************************************)
(* Construction, and the two specifications of the generator's C++        *)
(* interface.                                                              *)
(***************************************************************************)
\* rng_state_ after the constructor seeded it from the clock
\* (1762116179358537930 = 0x18744B543BA258CA)
Seeds == {Word64(6260, 19284, 15266, 22730)}

\* the state the constructors leave, reg the registry of initialize_symbols
Constructed(reg, ticks_per_second) ==
  /\ symbols = reg.symbols
  /\ venues = reg.venues
  /\ num_symbols = reg.num_symbols
  /\ num_venues = reg.num_venues
  /\ rng_state = reg.rng
  /\ total_ticks_generated = 0
  /\ generation_time_ns = 0
  /\ target_tick_interval_ns = TargetInterval(ticks_per_second)
  /\ stats = [ticks_processed |-> 0, processing_time_ns |-> 0,
              feature_calculations |-> 0]
  /\ clock = 0
  /\ fault = "none"
  /\ call = [op |-> "HighFrequencyTickGenerator"]
  /\ ret = NoReturn
  /\ gt = NoLocals
  /\ steps = 0
  /\ stream = NoStream
  /\ threads = NoThreads

\* HighFrequencyTickGenerator(uint32_t target_ticks_per_second)
Construct(seed, ticks_per_second) ==
  Constructed(initialize_symbols([i \in 0..(MAX_SYMBOLS - 1) |-> UnsetSymbol],
                                 [i \in 0..(MAX_VENUES - 1) |-> UnsetVenue],
                                 seed, DEFAULT_SYMBOLS, DEFAULT_VENUES),
              ticks_per_second)

Init == \E seed \in Seeds : Construct(seed, 1000000)

\* the symbol lists, venue lists and frequencies the calls are made with
SymbolLists == {<<>>, <<"AAPL">>, <<"TSLA", "NVDA", "SPY">>}

VenueLists == {<<>>, DEFAULT_VENUES}

Frequencies == {0, 10, 1000000000, 2000000000}

Next ==
  /\ steps < MaxCalls
  /\ \/ \E d \in Durations : GenerateTick(d)
     \/ \E count \in 0..MaxBatch, d \in Durations : GenerateTickBatch(count, d)
     \/ \E symbol_names \in SymbolLists, venue_configs \in VenueLists :
          InitializeSymbols(symbol_names, venue_configs)
     \/ \E ticks_per_second \in Frequencies : SetTargetFrequency(ticks_per_second)
     \/ ResetPerformanceCounters
     \/ GetPerformanceStats

\* any calls of the interface, MaxCalls of them
Spec == Init /\ [][Next]_vars

NextWalk == steps < MaxWalk /\ \E d \in {120} : GenerateTick(d)

\* a run of MaxWalk calls of generate_tick on the constructed generator
SpecWalk == Init /\ [][NextWalk]_vars

(***************************************************************************)
(* Properties of the generated ticks.                                      *)
(***************************************************************************)
\* the ticks the latest call returned or wrote
ReturnedTicks ==
  (IF ret.tick = NoTick THEN {} ELSE {ret.tick})
    \cup {ret.buffer[i] : i \in 1..Len(ret.buffer)}

TickValid(t) ==
  /\ 0 < t.bid_price
  /\ t.bid_price < t.ask_price
  /\ t.spread_bps >= 0
  /\ t.symbol_id < num_symbols
  /\ t.venue_id < num_venues

\* C1: whatever universe initialize_symbols configured, every tick that
\* generate_tick or generate_tick_batch produced has 0 < bid_price < ask_price,
\* spread_bps >= 0, symbol_id < num_symbols and venue_id < num_venues.
C1_EveryTickValid == \A t \in ReturnedTicks : TickValid(t)

\* a tick was produced for an empty symbol universe
C1_TickOfEmptyUniverse ==
  /\ call.op = "generate_tick"
  /\ ret.tick # NoTick
  /\ num_symbols = 0
  /\ ret.tick.symbol_id >= num_symbols

\* C2: no sequence of calls ends the process: every generate_tick and
\* generate_tick_batch completes without a division or modulo by zero.
C2_NoFatalState == fault = "none"

\* generate_tick died of the modulo by zero over an empty symbol list
C2_ModuloByZero ==
  /\ fault = "SIGFPE"
  /\ call.op = "generate_tick"
  /\ num_symbols = 0

(***************************************************************************)
(* The price floor.  The walk of a symbol starts at its base price and a  *)
(* call moves it by less than half a percent, so the floor is met only    *)
(* after a long decline; SpecFloor starts the calls from symbols whose    *)
(* walk has arrived at one of LowPrices.                                   *)
(***************************************************************************)
LowPrices == {100, 101, 137, 20000, 1892500}

\* the registry reg with every active symbol at current_price
AtPrice(reg, current_price) ==
  [reg EXCEPT !.symbols =
     [i \in 0..(MAX_SYMBOLS - 1) |->
        IF i < reg.num_symbols
        THEN [reg.symbols[i] EXCEPT !.current_price = current_price]
        ELSE reg.symbols[i]]]

InitFloor ==
  \E seed \in Seeds, current_price \in LowPrices :
    Constructed(AtPrice(initialize_symbols([i \in 0..(MAX_SYMBOLS - 1) |-> UnsetSymbol],
                                           [i \in 0..(MAX_VENUES - 1) |-> UnsetVenue],
                                           seed, DEFAULT_SYMBOLS, DEFAULT_VENUES),
                        current_price),
                1000000)

NextFloor ==
  /\ steps < MaxCalls
  /\ \/ \E d \in Durations : GenerateTick(d)
     \/ \E count \in 0..MaxBatch, d \in Durations : GenerateTickBatch(count, d)

SpecFloor == InitFloor /\ [][NextFloor]_vars

\* C3: after any calls of generate_tick and generate_tick_batch, whatever
\* price change was drawn, the current_price of every active symbol and the
\* last_price of every returned tick is at least 0.01.
C3_PriceFloor ==
  /\ \A i \in 0..(num_symbols - 1) : symbols[i].current_price >= PRICE_FLOOR
  /\ \A t \in ReturnedTicks : t.last_price >= PRICE_FLOOR

\* a tick whose drawn change took the price below 0.01, returned at 0.01
C3_FloorApplied ==
  /\ call.op = "generate_tick"
  /\ ret.tick # NoTick
  /\ gt.current_price + MulPpm(gt.current_price, gt.price_change) < PRICE_FLOOR
  /\ ret.tick.last_price = PRICE_FLOOR
  /\ symbols[ret.tick.symbol_id].current_price = PRICE_FLOOR

(***************************************************************************)
(* The spread of a tick.                                                   *)
(***************************************************************************)
\* the latest call returned one tick whose spread_bps is twice the draw
Doubled == ret.tick.spread_bps = 2 * gt.drawn_spread

DrawnSpreadInRange ==
  /\ 500 <= gt.drawn_spread
  /\ gt.drawn_spread < 3000
  /\ ret.tick.spread_bps \in {gt.drawn_spread, 2 * gt.drawn_spread}

\* C10 as the code has it: the drawn spread (in [0.5, 3.0) bps) is doubled
\* exactly when the price the selected symbol had before this call's change
\* exceeds 500, and is left undoubled otherwise.
C10_DoubledByPriceBefore ==
  ret.tick # NoTick =>
    /\ DrawnSpreadInRange
    /\ Doubled <=> gt.current_price > WIDE_SPREAD_PRICE

\* C10 as stated: the drawn spread is doubled exactly when the new price of
\* the selected symbol (the tick's last_price) exceeds 500.
C10_DoubledByNewPrice ==
  ret.tick # NoTick =>
    /\ DrawnSpreadInRange
    /\ Doubled <=> ret.tick.last_price > WIDE_SPREAD_PRICE

\* a tick that took its symbol from above 500 to 500 or less, spread doubled
C10_CrossedDown ==
  /\ ret.tick # NoTick
  /\ gt.current_price > WIDE_SPREAD_PRICE
  /\ ret.tick.last_price <= WIDE_SPREAD_PRICE
  /\ Doubled

(***************************************************************************)
(* The timestamps of a batch.                                              *)
(***************************************************************************)
\* timestamp of output_buffer[i] minus that of output_buffer[i - 1]
\* (the buffer as a sequence, from 1)
Gap(i) == ret.buffer[i].timestamp_ns - ret.buffer[i - 1].timestamp_ns

\* every tick of the latest batch is the interval, and at most a tenth of it
\* more, later than the tick before it
BatchSpaced ==
  \A i \in 2..Len(ret.buffer) :
    /\ Gap(i) >= target_tick_interval_ns
    /\ Gap(i) <= target_tick_interval_ns + target_tick_interval_ns \div 10

\* C5 as the code has it: in a batch of count >= 2 every timestamp is at
\* least the target interval, and at most the interval plus 10% of it, later
\* than the previous one; the timestamps are strictly increasing when the
\* interval is positive, which set_target_frequency(n) makes it for
\* n <= 1000000000, and all equal when it is 0 (n > 1000000000).
C5_BatchSpacedFromInterval ==
  /\ BatchSpaced
  /\ \A i \in 2..Len(ret.buffer) : Gap(i) > 0 <=> target_tick_interval_ns > 0
  /\ \A n \in Frequencies : TargetInterval(n) > 0 <=> n <= 1000000000

\* C5 as stated: for any count >= 2 and any interval that
\* set_target_frequency can set, the timestamps of a batch are strictly
\* increasing, each at least the interval and at most the interval plus 10%
\* later than the previous one.
C5_BatchStrictlyIncreasing ==
  /\ BatchSpaced
  /\ \A i \in 2..Len(ret.buffer) : Gap(i) > 0

\* a batch of two or more ticks generated at interval 0: equal timestamps
C5_BatchAtIntervalZero ==
  /\ call.op = "generate_tick_batch"
  /\ Len(ret.buffer) >= 2
  /\ target_tick_interval_ns = 0
  /\ Gap(2) = 0

(***************************************************************************)
(* The weighted selection, on its own: lines 85-100 of generate_tick for  *)
(* every value the draw of line 90 can take, on the registry as            *)
(* initialize_symbols left it.                                             *)
(***************************************************************************)
WeightedScan(random_weight) ==
  /\ fault = "none"
  /\ gt = NoLocals
  /\ gt' = [total_weight |-> TotalWeight(symbols, num_symbols),
            random_weight |-> random_weight,
            selected_symbol |-> SelectSymbol(symbols, num_symbols, random_weight)]
  /\ call' = [op |-> "weighted_scan"]
  /\ ret' = NoReturn
  /\ UNCHANGED <<genvars, stats, clock, fault, steps>>
  /\ UNCHANGED <<stream, threads>>

\* DEFAULT_SYMBOLS and two names more
LongSymbolList == DEFAULT_SYMBOLS \o <<"IBM", "ORCL">>

ScanLists == {<<"AAPL">>, <<"TSLA", "NVDA", "SPY">>, LongSymbolList}

NextScan ==
  \/ /\ steps < MaxCalls
     /\ \E symbol_names \in ScanLists : InitializeSymbols(symbol_names, DEFAULT_VENUES)
  \/ \E random_weight \in 0..(TotalWeight(symbols, num_symbols) - 1) :
       WeightedScan(random_weight)

SpecScan == Init /\ [][NextScan]_vars

\* the symbol each draw of [0, total_weight - 1] selects
Selection ==
  Eval([d \in 0..(TotalWeight(symbols, num_symbols) - 1) |->
          SelectSymbol(symbols, num_symbols, d)])

\* in the selection sel every symbol has as many draws as its tick_multiplier
SelectedInProportion(sel) ==
  \A i \in 0..(num_symbols - 1) :
    Cardinality({d \in DOMAIN sel : sel[d] = i}) = symbols[i].tick_multiplier

\* C4: for a draw d in [0, total_weight - 1] the selected symbol is the lowest
\* index i whose cumulative tick_multiplier sum through i is strictly greater
\* than d; so exactly tick_multiplier[i] of the total_weight draws select i.
C4_LowestExceeding ==
  /\ call.op = "weighted_scan" =>
       /\ gt.selected_symbol \in 0..(num_symbols - 1)
       /\ TotalWeight(symbols, gt.selected_symbol + 1) > gt.random_weight
       /\ \A j \in 0..(gt.selected_symbol - 1) :
            TotalWeight(symbols, j + 1) <= gt.random_weight
  /\ SelectedInProportion(Selection)

\* a draw equal to the cumulative weight through symbol i - 1 selected i,
\* in the default universe
C4_DrawOnBoundary ==
  /\ call.op = "weighted_scan"
  /\ num_symbols = Len(DEFAULT_SYMBOLS)
  /\ gt.selected_symbol > 0
  /\ gt.random_weight = TotalWeight(symbols, gt.selected_symbol)

(***************************************************************************)
(* Market-data processor.                                                  *)
(***************************************************************************)
\* a / b in units of 0.0001
Ratio(a, b) == (a * 10000) \div b

RECURSIVE SqrtBetween(_, _, _)
SqrtBetween(n, low, high) ==
  IF low >= high THEN low
  ELSE IF ((low + high + 1) \div 2) * ((low + high + 1) \div 2) <= n
    THEN SqrtBetween(n, (low + high + 1) \div 2, high)
    ELSE SqrtBetween(n, low, (low + high + 1) \div 2 - 1)

\* std::sqrt, rounded down, of 0 <= n < 2^31
Sqrt(n) == SqrtBetween(n, 0, 46340)

RECURSIVE Log2(_)
\* the exponent of the highest power of 2 in 1 .. n
Log2(n) == IF n < 2 THEN 0 ELSE 1 + Log2(n \div 2)

\* std::log(n) for n >= 1, the mantissa interpolated linearly
Log(n) == 693 * Log2(n) + (693 * (n - 2 ^ Log2(n))) \div (2 ^ Log2(n))

\* a history buffer: the null pointer, or a pointer to the ticks
NullBuffer == [null |-> TRUE, ticks |-> <<>>]

Buffer(ticks) == [null |-> FALSE, ticks |-> ticks]

RECURSIVE SumFrom(_, _, _)
\* the sum of values[i] over from <= i < history_size
SumFrom(values, from, history_size) ==
  IF from >= history_size THEN 0
  ELSE values[from] + SumFrom(values, from + 1, history_size)

\* history_buffer[i].last_price, history_buffer[i].volume and the diff * diff
\* of line 234, for 0 <= i < history_size (history_buffer[i] is element i + 1
\* of the sequence of ticks)
LastPrices(history_buffer, history_size) ==
  [i \in 0..(history_size - 1) |-> history_buffer.ticks[i + 1].last_price]

Volumes(history_buffer, history_size) ==
  [i \in 0..(history_size - 1) |-> history_buffer.ticks[i + 1].volume]

Deviations(history_buffer, history_size, avg_price) ==
  [i \in 0..(history_size - 1) |->
     (history_buffer.ticks[i + 1].last_price - avg_price)
       * (history_buffer.ticks[i + 1].last_price - avg_price)]

\* features.momentum_1min as declared at line 204: MLFeatures has no
\* initializers, so the field holds what the stack held
IndeterminateFloats == {0, -1, 12345}

\* whether process_tick assigns momentum_1min in its history branch
MomentumWindow(recent_history) == recent_history >= 5

\* the history branch with the variance taken over the whole buffer
HistoryFeaturesOfAll(tick, history_buffer, history_size, recent_history, avg_price, avg_volume, indeterminate) ==
  LET variance_sum == SumFrom(Deviations(history_buffer, history_size, avg_price),
                              0, history_size)
      old_price == history_buffer.ticks[history_size - 5 + 1].last_price
  IN [price_change |-> Ratio(tick.last_price - avg_price, avg_price),
      volume_ratio |-> Ratio(tick.volume, Max(avg_volume, 1)),
      volatility_5min |-> Sqrt(variance_sum \div recent_history),
      momentum_1min |->
        IF MomentumWindow(recent_history)
        THEN Ratio(tick.last_price - old_price, old_price)
        ELSE indeterminate]

\* the history branch of process_tick (lines 214-242), avg_price and
\* avg_volume the two means
HistoryFeatures(tick, history_buffer, history_size, recent_history, avg_price, avg_volume, indeterminate) ==
  LET variance_sum == SumFrom(Deviations(history_buffer, history_size, avg_price),
                              history_size - recent_history, history_size)
      old_price == history_buffer.ticks[history_size - 5 + 1].last_price
  IN [price_change |-> Ratio(tick.last_price - avg_price, avg_price),
      volume_ratio |-> Ratio(tick.volume, Max(avg_volume, 1)),
      volatility_5min |-> Sqrt(variance_sum \div recent_history),
      momentum_1min |->
        IF MomentumWindow(recent_history)
        THEN Ratio(tick.last_price - old_price, old_price)
        ELSE indeterminate]

\* a history branch taken for a single entry too
HasHistoryOfOne(history_buffer, history_size) ==
  history_buffer # NullBuffer /\ history_size > 0

\* whether process_tick takes its history branch (line 213)
HasHistory(history_buffer, history_size) ==
  history_buffer # NullBuffer /\ history_size > 1

\* the four features that depend on the history (lines 213-249)
WindowFeatures(tick, history_buffer, history_size, indeterminate) ==
  IF HasHistory(history_buffer, history_size)
  THEN HistoryFeatures(tick, history_buffer, history_size, Min(history_size, 10),
         SumFrom(LastPrices(history_buffer, history_size),
                 history_size - Min(history_size, 10), history_size)
           \div Min(history_size, 10),
         SumFrom(Volumes(history_buffer, history_size),
                 history_size - Min(history_size, 10), history_size)
           \div Min(history_size, 10),
         indeterminate)
  ELSE [price_change |-> 0, volume_ratio |-> 10000, volatility_5min |-> 200,
        momentum_1min |-> 0]

\* the MLFeatures that process_tick returns
process_tick(tick, history_buffer, history_size, indeterminate) ==
  LET w == WindowFeatures(tick, history_buffer, history_size, indeterminate)
  IN [price_change |-> w.price_change,
      volume_ratio |-> w.volume_ratio,
      spread_bps |-> tick.spread_bps,
      volatility_5min |-> w.volatility_5min,
      momentum_1min |-> w.momentum_1min,
      liquidity_score |-> Log(tick.bid_size + tick.ask_size + 1),
      venue_preference |-> tick.venue_id * 100,
      timestamp_ns |-> tick.timestamp_ns]

\* a flag that needs all three conditions
RiskLimitOfAll(position_risk, price_change, volatility_5min) ==
  position_risk > 100000 /\ Abs(price_change) > 500 /\ volatility_5min > 1000

\* risk_limit_exceeded (lines 277-279): 10000.0f, 0.05f and 0.10f
RiskLimitExceeded(position_risk, price_change, volatility_5min) ==
  position_risk > 100000 \/ Abs(price_change) > 500 \/ volatility_5min > 1000

\* the RiskMetrics that calculate_risk_metrics returns
calculate_risk_metrics(features, position_size) ==
  [position_risk |-> Abs(position_size) * features.volatility_5min,
   market_impact_estimate |-> Abs(position_size) * features.spread_bps,
   execution_cost_estimate |-> Abs(position_size) * (features.spread_bps + 1000),
   risk_limit_exceeded |->
     RiskLimitExceeded(Abs(position_size) * features.volatility_5min,
                       features.price_change, features.volatility_5min)]

\* the ProcessorStats without the cap of the efficiency
ProcessorStatsUncapped(ticks, time_ns) ==
  LET avg == IF ticks > 0 THEN time_ns \div ticks ELSE 0
  IN [ticks_per_second |-> IF time_ns > 0 THEN PerSecond(ticks, time_ns) ELSE 0,
      avg_processing_time_ns |-> avg,
      throughput_efficiency |-> IF avg > 0 THEN 10000000 \div avg ELSE 0]

\* the ProcessorStats that get_processor_stats computes
ProcessorStats(ticks, time_ns) ==
  LET avg == IF ticks > 0 THEN time_ns \div ticks ELSE 0
  IN [ticks_per_second |-> IF time_ns > 0 THEN PerSecond(ticks, time_ns) ELSE 0,
      avg_processing_time_ns |-> avg,
      throughput_efficiency |->
        IF avg > 0 THEN Min(10000000 \div avg, 10000) ELSE 0]

\* MLFeatures process_tick(tick, history_buffer, history_size), taking d ns
ProcessTick(tick, history_buffer, history_size, d, indeterminate) ==
  /\ fault = "none"
  /\ ret' = [NoReturn EXCEPT !.features =
               process_tick(tick, history_buffer, history_size, indeterminate)]
  /\ stats' = [ticks_processed |-> stats.ticks_processed + 1,
               processing_time_ns |-> stats.processing_time_ns + d,
               feature_calculations |-> stats.feature_calculations + 7]
  /\ clock' = clock + d
  /\ call' = [op |-> "process_tick", tick |-> tick,
              history_buffer |-> history_buffer, history_size |-> history_size]
  /\ gt' = NoLocals
  /\ steps' = steps + 1
  /\ UNCHANGED <<genvars, fault>>
  /\ UNCHANGED <<stream, threads>>

\* RiskMetrics calculate_risk_metrics(features, position_size)
CalculateRiskMetrics(features, position_size) ==
  /\ fault = "none"
  /\ ret' = [NoReturn EXCEPT !.risk = calculate_risk_metrics(features, position_size)]
  /\ call' = [op |-> "calculate_risk_metrics", features |-> features,
              position_size |-> position_size]
  /\ gt' = NoLocals
  /\ steps' = steps + 1
  /\ UNCHANGED <<genvars, stats, clock, fault>>
  /\ UNCHANGED <<stream, threads>>

\* ProcessorStats get_processor_stats() const
GetProcessorStats ==
  /\ fault = "none"
  /\ ret' = [NoReturn EXCEPT !.stats =
               ProcessorStats(stats.ticks_processed, stats.processing_time_ns)]
  /\ call' = [op |-> "get_processor_stats"]
  /\ gt' = NoLocals
  /\ steps' = steps + 1
  /\ UNCHANGED <<genvars, stats, clock, fault>>
  /\ UNCHANGED <<stream, threads>>

(***************************************************************************)
(* The specification of the processor: the ticks, histories, features and *)
(* positions its calls are made with.                                      *)
(***************************************************************************)
SampleTick(last_price, volume) ==
  [timestamp_ns |-> 1000 + volume, symbol_id |-> 0,
   bid_price |-> last_price - 50, ask_price |-> last_price + 50,
   bid_size |-> 500, ask_size |-> 700, last_price |-> last_price,
   volume |-> volume, venue_id |-> 3, spread_bps |-> 1000]

\* ticks at 100.50, 106.00 and 94.00
SampleTicks ==
  {SampleTick(1005000, 50000), SampleTick(1060000, 0), SampleTick(940000, 150000)}

\* a history of n ticks from 100.00, each the given step above the one before
Run(n, step) ==
  Buffer([i \in 1..n |-> SampleTick(1000000 + step * (i - 1), 10000 + 1000 * i)])

Histories == {Run(n, 1000) : n \in {0, 1, 2, 3, 4, 5, 6, 12}} \cup {Run(5, 100)}

ProcessDurations == {0, 350, 1500}

SampleFeatures ==
  {[price_change |-> price_change, volume_ratio |-> 10000, spread_bps |-> 1000,
    volatility_5min |-> volatility_5min, momentum_1min |-> 0,
    liquidity_score |-> 7090, venue_preference |-> 300, timestamp_ns |-> 1000] :
     price_change \in {-501, -500, 0, 500, 501},
     volatility_5min \in {0, 200, 1000, 1001}}

PositionSizes == {-501, -100, 0, 100, 500, 501}

\* the features the latest process_tick returned, if it was the latest call
ReturnedFeatures == IF ret.features = NoFeatures THEN {} ELSE {ret.features}

NextProc ==
  /\ steps < MaxCalls
  /\ \/ \E tick \in SampleTicks, history_buffer \in Histories,
          d \in ProcessDurations, indeterminate \in IndeterminateFloats :
          ProcessTick(tick, history_buffer, Len(history_buffer.ticks), d, indeterminate)
     \/ \E tick \in SampleTicks, history_size \in {0, 3}, d \in ProcessDurations,
          indeterminate \in IndeterminateFloats :
          ProcessTick(tick, NullBuffer, history_size, d, indeterminate)
     \/ \E features \in SampleFeatures \cup ReturnedFeatures,
          position_size \in PositionSizes :
          CalculateRiskMetrics(features, position_size)
     \/ GetProcessorStats

\* a program that constructs a MarketDataProcessor and no generator
InitProc ==
  /\ symbols = <<>>
  /\ venues = <<>>
  /\ num_symbols = 0
  /\ num_venues = 0
  /\ rng_state = <<>>
  /\ total_ticks_generated = 0
  /\ generation_time_ns = 0
  /\ target_tick_interval_ns = 0
  /\ stats = [ticks_processed |-> 0, processing_time_ns |-> 0,
              feature_calculations |-> 0]
  /\ clock = 0
  /\ fault = "none"
  /\ call = [op |-> "MarketDataProcessor"]
  /\ ret = NoReturn
  /\ gt = NoLocals
  /\ steps = 0
  /\ stream = NoStream
  /\ threads = NoThreads

SpecProc == InitProc /\ [][NextProc]_vars

(***************************************************************************)
(* Properties of the processor.                                            *)
(***************************************************************************)
\* the latest call was process_tick without a usable history: a null buffer,
\* or a history of size 0 or 1
WithoutHistory ==
  /\ call.op = "process_tick"
  /\ call.history_buffer.null \/ call.history_size \in {0, 1}

\* the latest call was process_tick with a history of more than 1 entry
WithHistory ==
  /\ call.op = "process_tick"
  /\ ~call.history_buffer.null
  /\ call.history_size > 1

\* C7: process_tick with an absent history buffer or a history of size 0 or
\* 1 returns exactly price_change = 0, volume_ratio = 1, volatility_5min =
\* 0.02 and momentum_1min = 0, for every input tick.
C7_DefaultsWithoutHistory ==
  WithoutHistory =>
    /\ ret.features.price_change = 0
    /\ ret.features.volume_ratio = 10000
    /\ ret.features.volatility_5min = 200
    /\ ret.features.momentum_1min = 0

\* process_tick returned the defaults for a history of a single entry whose
\* price differs from the tick's
C7_SingleEntryHistory ==
  /\ WithoutHistory
  /\ ~call.history_buffer.null
  /\ call.history_size = 1
  /\ call.history_buffer.ticks[1].last_price # call.tick.last_price
  /\ ret.features.price_change = 0
  /\ ret.features.volatility_5min = 200

\* history[history_size - 5].last_price of the latest process_tick
PriceFiveBack == call.history_buffer.ticks[call.history_size - 5 + 1].last_price

\* C8: in process_tick with a history of more than 1 entry, momentum_1min is
\* (tick.last_price - history[history_size - 5].last_price) /
\* history[history_size - 5].last_price when the recent window has at least 5
\* entries, and 0 when it has fewer (history sizes 2, 3 and 4).
C8_MomentumOfWindow ==
  WithHistory =>
    ret.features.momentum_1min =
      IF call.history_size >= 5
      THEN Ratio(call.tick.last_price - PriceFiveBack, PriceFiveBack)
      ELSE 0

\* process_tick returned a momentum_1min other than 0 for a history of 3
C8_IndeterminateMomentum ==
  /\ WithHistory
  /\ call.history_size = 3
  /\ ret.features.momentum_1min # 0

\* C9: calculate_risk_metrics sets risk_limit_exceeded exactly when
\* position_risk (= |position_size| * volatility_5min * 1000) > 10000, or
\* |price_change| > 0.05, or volatility_5min > 0.10; each condition alone is
\* sufficient, and when none holds the flag is false.
C9_RiskLimitExceeded ==
  call.op = "calculate_risk_metrics" =>
    /\ ret.risk.position_risk
         = Abs(call.position_size) * call.features.volatility_5min
    /\ ret.risk.risk_limit_exceeded
         <=> \/ ret.risk.position_risk > 100000
             \/ call.features.price_change > 500
             \/ call.features.price_change < -500
             \/ call.features.volatility_5min > 1000

\* the flag set by the price change alone (-0.0501), the position risk and
\* the volatility within their limits
C9_PriceChangeAlone ==
  /\ call.op = "calculate_risk_metrics"
  /\ call.features.price_change = -501
  /\ call.features.volatility_5min <= 1000
  /\ ret.risk.position_risk <= 100000
  /\ ret.risk.risk_limit_exceeded

(***************************************************************************)
(* The flat-call boundary (extern "C").  A pointer argument is "null" or   *)
(* names the object it points to.                                          *)
(***************************************************************************)
\* a check of the generator pointer alone
NullGenerator(gen, output) == gen = "null"

\* !gen || !output of generate_tick_c
NullInGenerate(gen, output) == gen = "null" \/ output = "null"

\* !symbols alone
NullArray(gen, symbol_array) == symbol_array = "null"

\* !gen || !symbols of initialize_symbols_c
NullInInitialize(gen, symbol_array) == gen = "null" \/ symbol_array = "null"

\* !proc || !input || !output of process_tick_c
NullInProcess(proc, input, output) ==
  proc = "null" \/ input = "null" \/ output = "null"

\* int generate_tick_c(HighFrequencyTickGenerator* gen, MarketTick* output)
GenerateTickC(gen, output, d) ==
  /\ fault = "none"
  /\ \/ /\ NullInGenerate(gen, output)
        /\ ret' = [NoReturn EXCEPT !.code = 0]
        /\ call' = [op |-> "generate_tick_c", gen |-> gen, output |-> output,
                    ub |-> "wrap"]
        /\ gt' = NoLocals
        /\ UNCHANGED <<symbols, rng_state, total_ticks_generated,
                       generation_time_ns, clock, fault>>
     \/ /\ ~NullInGenerate(gen, output)
        /\ \E ub \in DivisionOutcomes(num_symbols, num_venues) :
             /\ TickReturned(generate_tick(Generator, num_symbols, num_venues, d, ub), 1)
             /\ call' = [op |-> "generate_tick_c", gen |-> gen, output |-> output,
                         ub |-> ub]
  /\ steps' = steps + 1
  /\ UNCHANGED <<venues, num_symbols, num_venues, target_tick_interval_ns, stats>>
  /\ UNCHANGED <<stream, threads>>

\* int initialize_symbols_c(gen, const char** symbols, size_t symbol_count);
\* symbol_names are the symbol_count strings of the array
InitializeSymbolsC(gen, symbol_array, symbol_names) ==
  /\ fault = "none"
  /\ \/ /\ NullInInitialize(gen, symbol_array)
        /\ ret' = [NoReturn EXCEPT !.code = 0]
        /\ UNCHANGED <<symbols, venues, num_symbols, num_venues, rng_state>>
     \/ /\ ~NullInInitialize(gen, symbol_array)
        /\ Initialized(initialize_symbols(symbols, venues, rng_state, symbol_names,
                                          DEFAULT_VENUES))
        /\ ret' = [NoReturn EXCEPT !.code = 1]
  /\ call' = [op |-> "initialize_symbols_c", gen |-> gen,
              symbol_array |-> symbol_array, symbol_count |-> Len(symbol_names)]
  /\ gt' = NoLocals
  /\ steps' = steps + 1
  /\ UNCHANGED <<total_ticks_generated, generation_time_ns,
                 target_tick_interval_ns, stats, clock, fault>>
  /\ UNCHANGED <<stream, threads>>

\* int process_tick_c(proc, const MarketTick* input, MLFeatures* output);
\* tick is *input
ProcessTickC(proc, input, output, tick, d) ==
  /\ fault = "none"
  /\ \/ /\ NullInProcess(proc, input, output)
        /\ ret' = [NoReturn EXCEPT !.code = 0]
        /\ UNCHANGED <<stats, clock>>
     \/ /\ ~NullInProcess(proc, input, output)
        /\ \E indeterminate \in IndeterminateFloats :
             ret' = [NoReturn EXCEPT !.code = 1,
                                     !.features = process_tick(tick, NullBuffer, 0,
                                                               indeterminate)]
        /\ stats' = [ticks_processed |-> stats.ticks_processed + 1,
                     processing_time_ns |-> stats.processing_time_ns + d,
                     feature_calculations |-> stats.feature_calculations + 7]
        /\ clock' = clock + d
  /\ call' = [op |-> "process_tick_c", proc |-> proc, input |-> input,
              output |-> output]
  /\ gt' = NoLocals
  /\ steps' = steps + 1
  /\ UNCHANGED <<genvars, fault>>
  /\ UNCHANGED <<stream, threads>>

GeneratorPointers == {"null", "gen"}

TickPointers == {"null", "tick"}

ArrayPointers == {"null", "symbols"}

ProcessorPointers == {"null", "proc"}

FeaturePointers == {"null", "features"}

NextFlat ==
  /\ steps < MaxCalls
  /\ \/ \E gen \in GeneratorPointers, output \in TickPointers, d \in Durations :
          GenerateTickC(gen, output, d)
     \/ \E gen \in GeneratorPointers, symbol_array \in ArrayPointers,
          symbol_names \in SymbolLists :
          InitializeSymbolsC(gen, symbol_array, symbol_names)
     \/ \E proc \in ProcessorPointers, input \in TickPointers,
          output \in FeaturePointers, tick \in SampleTicks, d \in ProcessDurations :
          ProcessTickC(proc, input, output, tick, d)

\* calls through the flat interface on one generator and one processor
SpecFlat == Init /\ [][NextFlat]_vars

\* the latest call was generate_tick_c or process_tick_c with a null pointer
\* among its arguments
NullCall ==
  \/ /\ call.op = "generate_tick_c"
     /\ "null" \in {call.gen, call.output}
  \/ /\ call.op = "process_tick_c"
     /\ "null" \in {call.proc, call.input, call.output}

\* C6: generate_tick_c with a null generator or null output pointer, and
\* process_tick_c with a null processor, input or output pointer, returns 0
\* and changes nothing: the tick and processing counters, the RNG state and
\* every symbol's state are the same as before the call.
C6_NullCallChangesNothing ==
  [][NullCall' =>
       /\ ret'.code = 0
       /\ UNCHANGED <<symbols, venues, num_symbols, num_venues, rng_state,
                      total_ticks_generated, generation_time_ns,
                      target_tick_interval_ns, stats>>]_vars

\* generate_tick_c returned 0 for a null output pointer, after a tick was
\* generated
C6_NullOutputAfterTick ==
  /\ call.op = "generate_tick_c"
  /\ call.gen = "gen"
  /\ call.output = "null"
  /\ ret.code = 0
  /\ total_ticks_generated = 1

\* ---------------------------------------------------------------------------
\* TickStream: the pull-based stream over the generator
\* ---------------------------------------------------------------------------

\* calls made in a run of the stream
MaxStreamCalls == 4

\* TickStream::TickStream(HighFrequencyTickGenerator& gen): a stream that is
\* live and whose first tick is due at once
TickStream(now) == [running_ |-> TRUE, next_tick_time_ns_ |-> now]

\* stop() that flips the flag
stop_flipped(s) == [s EXCEPT !.running_ = ~s.running_]

\* void stop() { running_ = false; }
stop(s) == [s EXCEPT !.running_ = FALSE]

\* the stream's state: stopped once running_ is false, whatever came before
Stopped == stream # NoStream /\ ~stream.running_

\* std::unique_ptr<TickStream> create_stream()
CreateStream ==
  /\ fault = "none"
  /\ stream = NoStream
  /\ stream' = TickStream(clock)
  /\ call' = [op |-> "create_stream"]
  /\ ret' = NoReturn
  /\ gt' = NoLocals
  /\ steps' = steps + 1
  /\ UNCHANGED <<genvars, stats, clock, fault, threads>>

\* bool TickStream::next_tick(MarketTick& tick): false once stopped; else
\* waits for the due time, yields one tick of the generator and moves the due
\* time on by the target interval
NextTick(d) ==
  /\ fault = "none"
  /\ stream # NoStream
  /\ call' = [op |-> "next_tick"]
  /\ steps' = steps + 1
  /\ IF ~stream.running_
       THEN /\ ret' = [NoReturn EXCEPT !.code = 0]
            /\ gt' = NoLocals
            /\ UNCHANGED <<genvars, stats, clock, fault, stream, threads>>
       ELSE /\ TickReturned(generate_tick([Generator EXCEPT !.clock = Max(clock, stream.next_tick_time_ns_)], num_symbols, num_venues, d, "wrap"), 1)
            /\ stream' = [stream EXCEPT !.next_tick_time_ns_ = @ + target_tick_interval_ns]
            /\ UNCHANGED <<venues, num_symbols, num_venues, target_tick_interval_ns, stats, threads>>

\* void TickStream::stop()
StopStream ==
  /\ fault = "none"
  /\ stream # NoStream
  /\ stream' = stop(stream)
  /\ call' = [op |-> "stop"]
  /\ ret' = NoReturn
  /\ gt' = NoLocals
  /\ steps' = steps + 1
  /\ UNCHANGED <<genvars, stats, clock, fault, threads>>

\* target frequencies set while a stream is open
StreamFrequencies == {0, 10}

NextStream ==
  /\ steps < MaxStreamCalls
  /\ \/ CreateStream
     \/ \E d \in Durations : NextTick(d)
     \/ StopStream
     \/ \E d \in Durations : GenerateTick(d)
     \/ \E n \in StreamFrequencies : SetTargetFrequency(n)

SpecStream == Init /\ [][NextStream]_vars

\* C11: once stop() was called the stream is stopped for good: stop() has
\* taken effect when it returns, hence before the next next_tick(); no
\* operation makes a stopped stream run again; and every next_tick() on a
\* stopped stream returns false, yields no tick and leaves the generator as
\* it was.
C11_StopIsTerminal ==
  [][/\ call'.op = "stop" => Stopped'
     /\ Stopped =>
          /\ Stopped'
          /\ call'.op = "next_tick" =>
               /\ ret'.code = 0
               /\ ret'.tick = NoTick
               /\ UNCHANGED genvars]_vars

\* next_tick() returned false on a stream that was stopped after it had
\* yielded a tick
C11_NextAfterStop ==
  /\ Stopped
  /\ call.op = "next_tick"
  /\ ret.code = 0
  /\ total_ticks_generated = 1

\* ---------------------------------------------------------------------------
\* Concurrent callers of generate_tick: every access of rng_state_, of the
\* selected symbol's price and of the counters is a step of its own
\* ---------------------------------------------------------------------------

\* times a thread may be interrupted in the middle of a call
MaxPreemptions == 2

\* the accesses of one generate_tick, in program order: the load of
\* xorshift64 (line 421) for the draws of lines 90, 105, 112, 118, 126, 140
\* and 141; each is followed by the store of line 426
LoadPoints == {1, 3, 6, 8, 10, 13, 15}

\* the thread table after thread t ran to leave its call at c: taking the
\* processor from a thread that is inside a call is a preemption
Scheduled(t, c) ==
  [calls |-> [threads.calls EXCEPT ![t] = c],
   turn |-> t,
   completed |-> threads.completed,
   preemptions |-> IF threads.turn \notin {0, t} /\ threads.calls[threads.turn] # Idle
                     THEN threads.preemptions + 1 ELSE threads.preemptions]

\* thread t runs one step that leaves its call at c
Runs(t, c) ==
  /\ Scheduled(t, c).preemptions <= MaxPreemptions
  /\ threads' = Scheduled(t, c)

\* xorshift64 as one atomic update of rng_state_
NextWordOfState(x, rng) == xorshift64(rng)

\* lines 422-426 of xorshift64: the word stored and returned is computed from
\* the word x that line 421 loaded, whatever rng_state_ holds by now
NextWord(x, rng) == xorshift64(x)

\* thread t enters generate_tick
EnterGenerateTick(t) ==
  /\ fault = "none"
  /\ threads.calls[t] = Idle
  /\ Runs(t, [op |-> "generate_tick", pc |-> 1, x |-> rng_state, r |-> <<>>,
              price |-> 0, now |-> 0])
  /\ call' = [op |-> "generate_tick", thread |-> t]
  /\ ret' = NoReturn
  /\ steps' = steps + 1
  /\ UNCHANGED <<genvars, stats, clock, fault, gt, stream>>

\* the next access of thread t inside generate_tick
GenerateTickStep(t) ==
  LET c == threads.calls[t]
      after == [c EXCEPT !.pc = @ + 1]
      w == WeightedDraw(symbols, num_symbols, c.r[1])
      symbol == symbols[w.selected_symbol]
  IN /\ c.op = "generate_tick"
     /\ UNCHANGED <<venues, num_symbols, num_venues, target_tick_interval_ns,
                    stats, fault, gt, stream, steps, call>>
     /\ CASE c.pc \in LoadPoints ->
               /\ Runs(t, [after EXCEPT !.x = rng_state])
               /\ UNCHANGED <<symbols, rng_state, total_ticks_generated,
                              generation_time_ns, clock, ret>>
          [] c.pc - 1 \in LoadPoints ->
               /\ rng_state' = NextWord(c.x, rng_state)
               /\ Runs(t, [after EXCEPT !.r = Append(@, NextWord(c.x, rng_state))])
               /\ UNCHANGED <<symbols, total_ticks_generated,
                              generation_time_ns, clock, ret>>
          [] c.pc = 5 ->
               /\ Runs(t, [after EXCEPT !.price = symbol.current_price])
               /\ UNCHANGED <<symbols, rng_state, total_ticks_generated,
                              generation_time_ns, clock, ret>>
          [] c.pc = 12 ->
               /\ symbols' = [symbols EXCEPT ![w.selected_symbol] =
                                [symbol EXCEPT
                                   !.current_price =
                                      NewPrice(c.price, PriceChange(c.r[2], symbol)),
                                   !.last_update_ns = clock]]
               /\ Runs(t, [after EXCEPT !.now = clock])
               /\ UNCHANGED <<rng_state, total_ticks_generated,
                              generation_time_ns, clock, ret>>
          [] c.pc = 17 ->
               /\ total_ticks_generated' = total_ticks_generated + 1
               /\ Runs(t, after)
               /\ UNCHANGED <<symbols, rng_state, generation_time_ns, clock, ret>>
          [] c.pc = 18 ->
               /\ \E d \in Durations :
                    /\ generation_time_ns' = generation_time_ns + d
                    /\ clock' = clock + d
               /\ ret' = [NoReturn EXCEPT !.tick =
                            TickOfSymbol([Generator EXCEPT
                                            !.symbols[w.selected_symbol].current_price = c.price,
                                            !.clock = c.now],
                                         num_venues, 0, "wrap", c.r, w).tick]
               /\ Runs(t, Idle)
               /\ UNCHANGED <<symbols, rng_state, total_ticks_generated>>

\* two calls of generate_tick, on the same thread or on different ones
NextRace ==
  \E t \in ThreadIds :
    \/ steps < Cardinality(ThreadIds) /\ EnterGenerateTick(t)
    \/ GenerateTickStep(t)

SpecRace == Init /\ [][NextRace]_vars

\* thread t has just completed a draw: its last access was the store of
\* xorshift64
Drawn(t) ==
  /\ threads.calls[t] # Idle
  /\ threads.calls[t].pc - 2 \in LoadPoints

\* the output of the draw that thread t completed last
Output(t) == threads.calls[t].r[Len(threads.calls[t].r)]

\* C12: generate_tick is not safe for two concurrent callers of one
\* generator. A draw returns, and leaves in rng_state_, xorshift64 of the
\* word it loaded, not of the word that is there when it stores; so whenever
\* two calls have loaded the same word both obtain the same output and the
\* RNG state is that output: it has advanced once for the two draws.
C12_DrawsOfOneWordCollide ==
  \A t, u \in ThreadIds :
    /\ Drawn(t) => Output(t) = xorshift64(threads.calls[t].x)
    /\ (t # u /\ Drawn(t) /\ Drawn(u) /\ threads.calls[t].x = threads.calls[u].x) =>
         /\ Output(t) = Output(u)
         /\ rng_state = Output(t)

\* both threads have made the first draw of their generate_tick, both
\* obtained the same output, and the RNG state is that output: one step, not
\* two, from where it was
C12_SameOutputTwice ==
  /\ Drawn(1) /\ Drawn(2)
  /\ threads.calls[1].pc = 3 /\ threads.calls[2].pc = 3
  /\ Output(1) = Output(2)
  /\ rng_state = Output(1)

\* ---------------------------------------------------------------------------
\* Concurrent callers and the tick counter.  The body of generate_tick (lines
\* 82-148) touches neither counter and is one step here; the two fetch_add
\* of lines 150 and 151 are steps of their own.
\* ---------------------------------------------------------------------------

\* the calls that generate ticks
TickOps == {"generate_tick", "generate_tick_c", "generate_tick_batch"}

\* total_ticks_generated_.store(1): the counter overwritten
TicksStored(n) == 1

\* total_ticks_generated_.fetch_add(1, std::memory_order_relaxed)
TicksAfter(n) == n + 1

\* thread t enters a call of op; count is the size of a batch.
\* reset_performance_counters is called between the generating calls.
EnterCounted(t, op, count) ==
  /\ fault = "none"
  /\ threads.calls[t] = Idle
  /\ \A u \in ThreadIds :
       /\ op = "reset_performance_counters" => threads.calls[u] = Idle
       /\ threads.calls[u].op # "reset_performance_counters"
  /\ Runs(t, [op |-> op, pc |-> IF op = "generate_tick_batch" /\ count = 0 THEN 5 ELSE 1,
              count |-> count, i |-> 0, d |-> 0, tick |-> NoTick, buffer |-> <<>>])
  /\ call' = [op |-> op, thread |-> t, count |-> count]
  /\ ret' = NoReturn
  /\ steps' = steps + 1
  /\ UNCHANGED <<genvars, stats, clock, fault, gt, stream>>

\* a step of thread t has the effect e = [g, c, completed, ret]: the
\* generator as the step leaves it (g.tick the tick the call holds), the
\* call c, the number of completed ticks and the latest return
Effected(t, e) ==
  /\ Commit(e.g)
  /\ ret' = e.ret
  /\ Scheduled(t, e.c).preemptions <= MaxPreemptions
  /\ threads' = [Scheduled(t, IF e.c = Idle THEN Idle ELSE [e.c EXCEPT !.tick = e.g.tick])
                   EXCEPT !.completed = e.completed]
  /\ UNCHANGED <<venues, num_symbols, num_venues, target_tick_interval_ns,
                 stats, stream, steps, call>>

\* the next step of thread t in generate_tick, generate_tick_c,
\* generate_tick_batch or reset_performance_counters; the body of
\* generate_tick takes d, the shorter of the two Durations, each time
CountedStep(t) ==
  LET c == threads.calls[t]
      same == [g |-> [Generator EXCEPT !.tick = c.tick],
               c |-> [c EXCEPT !.pc = @ + 1],
               completed |-> threads.completed,
               ret |-> ret]
      stamped == IF c.i > 0
                   THEN BatchStamp(same.g, target_tick_interval_ns, c.buffer[c.i],
                                   xorshift64(rng_state))
                   ELSE same.g
  IN /\ c.op \in TickOps \cup {"reset_performance_counters"}
     /\ \E d \in {e \in Durations : \A f \in Durations : e <= f} :
          Effected(t, Eval(
            CASE c.op = "reset_performance_counters" /\ c.pc = 1 ->
                   [same EXCEPT !.g.total_ticks = 0, !.completed = 0]
              [] c.op = "reset_performance_counters" /\ c.pc = 2 ->
                   [same EXCEPT !.g.time_ns = 0, !.c = Idle]
              [] c.op \in TickOps /\ c.pc = 1 ->
                   [same EXCEPT
                      !.g = [generate_tick(Generator, num_symbols, num_venues, d, "wrap")
                               EXCEPT !.total_ticks = total_ticks_generated,
                                      !.time_ns = generation_time_ns],
                      !.c.d = d]
              [] c.op \in TickOps /\ c.pc = 2 ->
                   [same EXCEPT !.g.total_ticks = TicksAfter(@)]
              [] c.op = "generate_tick_batch" /\ c.pc = 3 ->
                   [same EXCEPT !.g.time_ns = @ + c.d, !.completed = @ + 1]
              [] c.op \in TickOps /\ c.pc = 3 ->
                   [same EXCEPT !.g.time_ns = @ + c.d, !.completed = @ + 1,
                                !.c = Idle,
                                !.ret = [NoReturn EXCEPT
                                           !.code = IF c.op = "generate_tick_c" THEN 1 ELSE -1,
                                           !.tick = c.tick]]
              [] c.op = "generate_tick_batch" /\ c.pc = 4 ->
                   [same EXCEPT
                      !.g = stamped,
                      !.c = [c EXCEPT !.pc = IF c.i + 1 < c.count THEN 1 ELSE 5,
                                      !.i = @ + 1,
                                      !.buffer = Append(@, stamped.tick)]]
              [] c.op = "generate_tick_batch" /\ c.pc = 5 ->
                   [same EXCEPT !.g.time_ns = @ + c.d, !.c = Idle,
                                !.ret = [NoReturn EXCEPT !.buffer = c.buffer]]))

NextCount ==
  \E t \in ThreadIds :
    \/ /\ steps < MaxCalls
       /\ \E op \in TickOps \cup {"reset_performance_counters"}, count \in {0, 2} :
            /\ count = 2 \/ op = "generate_tick_batch"
            /\ EnterCounted(t, op, count)
    \/ CountedStep(t)
    \/ steps < MaxCalls /\ GetPerformanceStats

SpecCount == Init /\ [][NextCount]_vars

\* the calls that have added their tick to the counter (line 150) and have
\* not returned from generate_tick yet
InFlight ==
  Cardinality({t \in ThreadIds : threads.calls[t].op \in TickOps /\ threads.calls[t].pc = 3})

\* C13: under every interleaving of generate_tick, generate_tick_c and
\* generate_tick_batch calls of concurrent threads, total_ticks_generated is
\* the number of ticks whose generate_tick has returned since construction or
\* since the last reset_performance_counters, plus the ticks that are counted
\* and about to return; so it equals the number of completed ticks whenever
\* no call is in progress, a batch of count having added count.  Every
\* get_performance_stats reports the counter in total_ticks.
C13_TicksCounted ==
  [][/\ total_ticks_generated' = threads'.completed + InFlight'
     /\ \A t \in ThreadIds :
          (threads.calls[t].op = "generate_tick_batch" /\ threads'.calls[t] = Idle) =>
             Len(ret'.buffer) = threads.calls[t].count
     /\ (call'.op = "get_performance_stats" /\ steps' = steps + 1) =>
          ret'.stats.total_ticks = total_ticks_generated]_vars

\* no call is in progress, a batch of two and a single tick have run
\* interleaved, and the counter is at three
C13_ThreeTicksInterleaved ==
  /\ \A t \in ThreadIds : threads.calls[t] = Idle
  /\ threads.preemptions > 0
  /\ threads.completed = 3
  /\ total_ticks_generated = 3

\* ---------------------------------------------------------------------------
\* Concurrent callers of process_tick: the features are computed in locals
\* of the call (lines 201-251); each fetch_add of lines 253-255 is a step
\* ---------------------------------------------------------------------------

\* the feature counter advanced by one per call
FeaturesAfterCall(n) == n + 1

\* stats_.feature_calculations.fetch_add(7, std::memory_order_relaxed)
FeaturesAfter(n) == n + 7

\* thread t enters process_tick, or process_tick_c with pointers that are
\* not null (it passes no history)
EnterProcessTick(t, op, tick, history_buffer) ==
  /\ fault = "none"
  /\ threads.calls[t] = Idle
  /\ op = "process_tick_c" => history_buffer = NullBuffer
  /\ Runs(t, [op |-> op, pc |-> 1, tick |-> tick, history_buffer |-> history_buffer,
              d |-> 0, features |-> NoFeatures])
  /\ call' = [op |-> op, thread |-> t, tick |-> tick, history_buffer |-> history_buffer,
              history_size |-> Len(history_buffer.ticks)]
  /\ ret' = NoReturn
  /\ steps' = steps + 1
  /\ UNCHANGED <<genvars, stats, clock, fault, gt, stream>>

\* the next step of thread t in process_tick
ProcessTickStep(t) ==
  LET c == threads.calls[t]
      after == [c EXCEPT !.pc = @ + 1]
  IN /\ c.op \in {"process_tick", "process_tick_c"}
     /\ UNCHANGED <<genvars, fault, gt, stream, steps, call>>
     /\ CASE c.pc = 1 ->
               /\ \E d \in ProcessDurations \ {0}, indeterminate \in IndeterminateFloats :
                    /\ Runs(t, [after EXCEPT
                                  !.d = d,
                                  !.features = process_tick(c.tick, c.history_buffer,
                                                            Len(c.history_buffer.ticks),
                                                            indeterminate)])
                    /\ clock' = clock + d
               /\ UNCHANGED <<stats, ret>>
          [] c.pc = 2 ->
               /\ stats' = [stats EXCEPT !.ticks_processed = @ + 1]
               /\ Runs(t, after)
               /\ UNCHANGED <<clock, ret>>
          [] c.pc = 3 ->
               /\ stats' = [stats EXCEPT !.processing_time_ns = @ + c.d]
               /\ Runs(t, after)
               /\ UNCHANGED <<clock, ret>>
          [] c.pc = 4 ->
               /\ stats' = [stats EXCEPT !.feature_calculations = FeaturesAfter(@)]
               /\ threads' = [Scheduled(t, Idle) EXCEPT !.completed = @ + 1]
               /\ Scheduled(t, Idle).preemptions <= MaxPreemptions
               /\ ret' = [NoReturn EXCEPT
                            !.code = IF c.op = "process_tick_c" THEN 1 ELSE -1,
                            !.features = c.features]
               /\ UNCHANGED clock

NextProcessing ==
  \E t \in ThreadIds :
    \/ /\ steps < MaxCalls
       /\ \E op \in {"process_tick", "process_tick_c"},
             tick \in {k \in SampleTicks : k.volume > 0},
             history_buffer \in {NullBuffer, Run(5, 1000)} :
            /\ op = "process_tick" => history_buffer # NullBuffer
            /\ EnterProcessTick(t, op, tick, history_buffer)
    \/ ProcessTickStep(t)
    \/ /\ steps < MaxCalls
       /\ \E features \in {f \in SampleFeatures : f.price_change = 501 /\ f.volatility_5min = 0},
             position_size \in {p \in PositionSizes : p > 500} :
            CalculateRiskMetrics(features, position_size)
    \/ steps < MaxCalls /\ GetProcessorStats

SpecProcessing == InitProc /\ [][NextProcessing]_vars

\* the calls of process_tick that have counted their tick (line 253) and not
\* yet their features (line 255)
Counting ==
  Cardinality({t \in ThreadIds : threads.calls[t] # Idle /\ threads.calls[t].pc \in {3, 4}})

\* C14: under every interleaving of process_tick and process_tick_c calls of
\* concurrent threads, feature_calculations is 7 times the number N of calls
\* that have returned and ticks_processed is N plus the calls that are
\* between line 253 and their return; so after N completed calls, none in
\* progress, ticks_processed = N and feature_calculations = 7 N.
\* calculate_risk_metrics and get_processor_stats change neither counter.
C14_ProcessedCounted ==
  [][/\ stats'.ticks_processed = threads'.completed + Counting'
     /\ stats'.feature_calculations = 7 * threads'.completed
     /\ call'.op \in {"calculate_risk_metrics", "get_processor_stats"} /\ steps' = steps + 1
          => stats' = stats]_vars

\* two calls of process_tick have run interleaved and returned
C14_TwoCallsInterleaved ==
  /\ \A t \in ThreadIds : threads.calls[t] = Idle
  /\ threads.preemptions > 0
  /\ threads.completed = 2
  /\ stats.ticks_processed = 2
  /\ stats.feature_calculations = 14

\* ---------------------------------------------------------------------------
\* (Re)initialization of the registry, with lists longer than the tables
\* ---------------------------------------------------------------------------

\* lists of 0, 3 and 81 symbol names
InitSymbolLists ==
  {<<>>, <<"TSLA", "NVDA", "SPY">>,
   DEFAULT_SYMBOLS \o DEFAULT_SYMBOLS \o DEFAULT_SYMBOLS}

\* lists of 0, 5 and 10 venues
InitVenueLists == {<<>>, DEFAULT_VENUES, DEFAULT_VENUES \o DEFAULT_VENUES}

NextInit ==
  /\ steps < MaxCalls
  /\ \/ \E symbol_names \in InitSymbolLists, venue_configs \in InitVenueLists :
          InitializeSymbols(symbol_names, venue_configs)
     \/ \E gen \in GeneratorPointers, symbol_array \in ArrayPointers,
          symbol_names \in InitSymbolLists :
          InitializeSymbolsC(gen, symbol_array, symbol_names)
     \/ \E d \in Durations : GenerateTick(d)

SpecInit == Init /\ [][NextInit]_vars

\* C15: initialize_symbols takes lists of any length: it leaves
\* num_symbols = min(n, 64) and num_venues = min(m, 8), so the counts never
\* exceed the capacities, and gives every symbol past the end of the price
\* and weight tables the default price 100.0 and the default weight 3.
C15_TruncatedWithDefaults ==
  /\ num_symbols <= 64 /\ num_venues <= 8
  /\ call.op = "initialize_symbols" =>
       /\ fault = "none"
       /\ num_symbols = Min(call.symbol_count, 64)
       /\ num_venues = Min(call.venue_count, 8)
       /\ \A i \in 0..(num_symbols - 1) :
            /\ symbols[i].symbol_name = call.symbol_names[i + 1]
            /\ symbols[i].current_price =
                 IF i < 27 THEN BASE_PRICES[i + 1] ELSE 1000000
            /\ symbols[i].tick_multiplier =
                 IF i < 27 THEN TICK_MULTIPLIERS[i + 1] ELSE 3
       /\ \A i \in 0..(num_venues - 1) : venues[i] = call.venue_configs[i + 1]

\* initialize_symbols was given 81 symbols and 10 venues and kept 64 and 8,
\* the last symbol at the default price and weight
C15_OversizedLists ==
  /\ call.op = "initialize_symbols"
  /\ call.symbol_count = 81 /\ call.venue_count = 10
  /\ num_symbols = 64 /\ num_venues = 8
  /\ symbols[63].current_price = 1000000
  /\ symbols[63].tick_multiplier = 3

\* the registry of a generator that was just constructed
FreshGenerator ==
  initialize_symbols([i \in 0..(MAX_SYMBOLS - 1) |-> UnsetSymbol],
                     [i \in 0..(MAX_VENUES - 1) |-> UnsetVenue],
                     CHOOSE seed \in Seeds : TRUE, DEFAULT_SYMBOLS, DEFAULT_VENUES)

\* the registry after one initialize_symbols(symbol_names, venue_configs) on
\* a generator that was just constructed
SingleCall(symbol_names, venue_configs) ==
  initialize_symbols(FreshGenerator.symbols, FreshGenerator.venues,
                     FreshGenerator.rng, symbol_names, venue_configs)

\* the active part of the registry reg: the counts, the given fields of the
\* symbols below num_symbols and the venues below num_venues
ActiveRegistry(reg, fields) ==
  [num_symbols |-> reg.num_symbols,
   num_venues |-> reg.num_venues,
   symbols |-> [i \in 0..(reg.num_symbols - 1) |-> [f \in fields |-> reg.symbols[i][f]]],
   venues |-> [i \in 0..(reg.num_venues - 1) |-> reg.venues[i]]]

\* the registry of the generator
Registry ==
  [symbols |-> symbols, venues |-> venues, num_symbols |-> num_symbols,
   num_venues |-> num_venues]

\* C16 as stated: after initialize_symbols(S, V), whatever came before, the
\* counts, every field of every active symbol (volatility, avg_volume and
\* price_trend among them) and every active venue are as after a single
\* initialize_symbols(S, V) on a fresh generator.
C16_SameAsSingleCall ==
  call.op = "initialize_symbols" =>
    LET fields == {"symbol_name", "current_price", "tick_multiplier", "last_update_ns",
                   "volatility", "avg_volume", "price_trend"}
    IN ActiveRegistry(Registry, fields)
         = ActiveRegistry(SingleCall(call.symbol_names, call.venue_configs), fields)

\* C16, amended: after initialize_symbols(S, V), whatever came before, the
\* counts, the name, current_price, tick_multiplier and last_update_ns of
\* every active symbol and every active venue are as after a single
\* initialize_symbols(S, V) on a fresh generator; volatility, avg_volume and
\* price_trend are drawn anew, within [0.15, 0.45], [10000, 100000] and
\* [-0.02, 0.02].
C16_ReplacedAndRedrawn ==
  call.op = "initialize_symbols" =>
    LET fields == {"symbol_name", "current_price", "tick_multiplier", "last_update_ns"}
    IN /\ ActiveRegistry(Registry, fields)
            = ActiveRegistry(SingleCall(call.symbol_names, call.venue_configs), fields)
       /\ \A i \in 0..(num_symbols - 1) :
            /\ symbols[i].volatility \in 1500..4500
            /\ symbols[i].avg_volume \in 10000..100000
            /\ symbols[i].price_trend \in -2000..2000

\* initialize_symbols ran on a generator that had generated a tick for one
\* of the symbols it initialized, and the volatility it drew for the first
\* symbol is not the one a fresh generator gets
C16_RedrawnAfterTick ==
  /\ call.op = "initialize_symbols"
  /\ total_ticks_generated = 1
  /\ call.symbol_count > 27
  /\ symbols[0].volatility
       # SingleCall(call.symbol_names, call.venue_configs).symbols[0].volatility

\* C17: set_target_frequency(n) sets the target interval to floor(1e9 / n)
\* ns for n > 0 (the largest interval with interval * n <= 1e9) and to
\* 1,000,000 ns for n = 0, and changes nothing else: the symbols, the venues,
\* the counts, the RNG state and the tick and time counters are as before.
C17_IntervalOnly ==
  [][call'.op = "set_target_frequency" =>
       /\ IF call'.ticks_per_second = 0
            THEN target_tick_interval_ns' = 1000000
            ELSE /\ target_tick_interval_ns' * call'.ticks_per_second <= 1000000000
                 /\ (target_tick_interval_ns' + 1) * call'.ticks_per_second > 1000000000
       /\ UNCHANGED <<symbols, venues, num_symbols, num_venues, rng_state,
                      total_ticks_generated, generation_time_ns, stats>>]_vars

\* set_target_frequency(0) was called after a tick was generated and left
\* the interval at 1 ms
C17_DefaultAfterTick ==
  /\ call.op = "set_target_frequency"
  /\ call.ticks_per_second = 0
  /\ target_tick_interval_ns = 1000000
  /\ total_ticks_generated = 1

(***************************************************************************)
(* The statistics of the processor.  The efficiency is in units of 0.01    *)
(* percent, rounded down.                                                  *)
(***************************************************************************)
\* C18: get_processor_stats completes for every counter values that
\* process_tick calls produce and returns an efficiency between 0 and 100
\* percent: with no tick the average is 0, otherwise it is the accumulated
\* time divided by the ticks, rounded down; the efficiency is 0 for an
\* average of 0, 100 percent for an average of at most 1000 ns and
\* 100000 / average percent above that; ticks_per_second is 0 when the
\* accumulated time is 0.
C18_EfficiencyCapped ==
  call.op = "get_processor_stats" =>
    LET s == ret.stats
        ticks == stats.ticks_processed
        time_ns == stats.processing_time_ns
        avg == s.avg_processing_time_ns
        e == s.throughput_efficiency
    IN /\ fault = "none"
       /\ e \in 0..10000
       /\ ticks = 0 => avg = 0
       /\ ticks > 0 => avg * ticks <= time_ns /\ time_ns < (avg + 1) * ticks
       /\ avg = 0 => e = 0
       /\ avg \in 1..1000 => e = 10000
       /\ avg > 1000 => e * avg <= 10000000 /\ 10000000 < (e + 1) * avg
       /\ time_ns = 0 => s.ticks_per_second = 0

\* statistics taken after one tick of 1500 ns: 66.66 percent
C18_SlowTick ==
  /\ call.op = "get_processor_stats"
  /\ stats.ticks_processed = 1
  /\ ret.stats.avg_processing_time_ns = 1500
  /\ ret.stats.throughput_efficiency = 6666

\* ---------------------------------------------------------------------------
\* The C interface of the initialization
\* ---------------------------------------------------------------------------

\* C19: initialize_symbols_c with a generator and a symbol array returns 1
\* and leaves num_symbols = min(symbol_count, 64) and the five default
\* venues NYSE, NASDAQ, ARCA, IEX, CBOE as the active venues; with a null
\* generator or a null array it returns 0 and changes nothing of the
\* generator.
C19_InitializedOrRefused ==
  [][call'.op = "initialize_symbols_c" =>
       IF call'.gen = "null" \/ call'.symbol_array = "null"
         THEN /\ ret'.code = 0
              /\ UNCHANGED <<symbols, venues, num_symbols, num_venues, rng_state,
                             total_ticks_generated, generation_time_ns,
                             target_tick_interval_ns>>
         ELSE /\ ret'.code = 1
              /\ num_symbols' = Min(call'.symbol_count, 64)
              /\ num_venues' = 5
              /\ \A i \in 0..4 : venues'[i] = DEFAULT_VENUES[i + 1]
              /\ {venues'[i].name : i \in 0..(num_venues' - 1)} =
                   {"NYSE", "NASDAQ", "ARCA", "IEX", "CBOE"}]_vars

\* 81 names through the C interface, after an initialization with 10 venues
\* had filled the venue table
C19_DefaultsOverTenVenues ==
  /\ call.op = "initialize_symbols_c"
  /\ ret.code = 1
  /\ call.symbol_count = 81
  /\ num_symbols = 64
  /\ num_venues = 5
  /\ venues[7] = DEFAULT_VENUES[3]

\* ---------------------------------------------------------------------------
\* What generate_tick writes
\* ---------------------------------------------------------------------------

\* C20: a generate_tick call that returns symbol_id = s changes, of the
\* registry, only current_price and last_update_ns of symbol s: every other
\* symbol, the other fields of symbol s, the venue table, num_symbols,
\* num_venues and the target interval are as before; and only an
\* initialization ever changes the venue table.
C20_OnlySelectedSymbol ==
  [][/\ (call'.op = "generate_tick" /\ fault' = "none") =>
          LET s == ret'.tick.symbol_id
          IN /\ \A i \in 0..(MAX_SYMBOLS - 1) :
                   symbols'[i] =
                     IF i = s
                       THEN [symbols[i] EXCEPT
                               !.current_price = symbols'[i].current_price,
                               !.last_update_ns = symbols'[i].last_update_ns]
                       ELSE symbols[i]
             /\ UNCHANGED <<venues, num_symbols, num_venues,
                            target_tick_interval_ns>>
     /\ venues' # venues =>
          call'.op \in {"initialize_symbols", "initialize_symbols_c"}]_vars

\* a tick of a symbol other than the first, generated on a registry of 64
\* symbols and 8 venues
C20_TickOfLaterSymbol ==
  /\ call.op = "generate_tick"
  /\ fault = "none"
  /\ num_symbols = 64 /\ num_venues = 8
  /\ ret.tick.symbol_id > 0
  /\ symbols[ret.tick.symbol_id].last_update_ns = ret.tick.timestamp_ns
  /\ symbols[ret.tick.symbol_id].current_price = ret.tick.last_price
  /\ symbols[0].last_update_ns = 0

\* ---------------------------------------------------------------------------
\* The accumulated generation time
\* ---------------------------------------------------------------------------

\* C21: every generating call adds to generation_time_ns the measured
\* durations of the ticks it counted, each once, whether the ticks came from
\* generate_tick or from generate_tick_batch.  The clock advances by the
\* duration of each tick, so the time added by a call is the time the call
\* moved the clock.
C21_TimeOfCountedTicks ==
  [][(call'.op \in {"generate_tick", "generate_tick_batch"} /\ fault' = "none") =>
       generation_time_ns' - generation_time_ns = clock' - clock]_vars

\* the statistics after one batch of three ticks of 120 ns each: the batch
\* added its own 360 ns to the 360 ns of its ticks, and the average is 240
C21_BatchCountedTwice ==
  /\ call.op = "get_performance_stats"
  /\ clock = 360
  /\ ret.stats.total_ticks = 3
  /\ generation_time_ns = 720
  /\ ret.stats.avg_generation_time_ns = 240

\* ---------------------------------------------------------------------------
\* process_tick as a function of its arguments
\* ---------------------------------------------------------------------------

\* C22: two process_tick calls with the same tick and the same history
\* return the same features in every field, whatever was called before;
\* stated of a call that follows a call with the same arguments.
C22_SameArgumentsSameFeatures ==
  [][(/\ call.op = "process_tick"
      /\ call'.op = "process_tick"
      /\ call'.tick = call.tick
      /\ call'.history_buffer = call.history_buffer
      /\ call'.history_size = call.history_size) =>
       ret'.features = ret.features]_vars

\* the second of two calls on a history of three ticks, returning the
\* momentum that its stack slot held
C22_SecondCallOfThree ==
  /\ call.op = "process_tick"
  /\ call.history_buffer = Run(3, 1000)
  /\ call.history_size = 3
  /\ stats.ticks_processed = 2
  /\ ret.features.momentum_1min = 12345

\* ---------------------------------------------------------------------------
\* The recent window of process_tick
\* ---------------------------------------------------------------------------

\* the last min(history_size, 10) ticks of the history of the latest call
RecentWindow ==
  SubSeq(call.history_buffer.ticks,
         call.history_size - Min(call.history_size, 10) + 1, call.history_size)

RECURSIVE SumOf(_)
\* the sum of a sequence of numbers
SumOf(values) == IF values = <<>> THEN 0 ELSE Head(values) + SumOf(Tail(values))

\* the mean of the last prices of the window
WindowMeanPrice ==
  SumOf([i \in 1..Len(RecentWindow) |-> RecentWindow[i].last_price])
    \div Len(RecentWindow)

\* C23: with a history of more than one entry, process_tick takes the mean
\* price, the mean volume and the population variance over the last
\* min(history_size, 10) entries and no others, reads no entry outside the
\* history, and for a history of more than 10 entries returns the same
\* features whatever stands in an entry before the last ten.
C23_RecentWindowOnly ==
  WithHistory =>
    LET n == Len(RecentWindow)
        mean_volume == SumOf([i \in 1..n |-> RecentWindow[i].volume]) \div n
        variance ==
          SumOf([i \in 1..n |->
                   (RecentWindow[i].last_price - WindowMeanPrice)
                     * (RecentWindow[i].last_price - WindowMeanPrice)]) \div n
    IN /\ n = Min(call.history_size, 10)
       /\ ret.features.price_change =
            Ratio(call.tick.last_price - WindowMeanPrice, WindowMeanPrice)
       /\ ret.features.volume_ratio = Ratio(call.tick.volume, Max(mean_volume, 1))
       /\ ret.features.volatility_5min = Sqrt(variance)
       /\ \A i \in 1..(call.history_size - 10), indeterminate \in IndeterminateFloats :
            process_tick(call.tick,
                         Buffer([call.history_buffer.ticks EXCEPT
                                   ![i] = SampleTick(1005000, 50000)]),
                         call.history_size, indeterminate) = ret.features

\* a call with a history of 12 ticks, two of them before the window
C23_HistoryOfTwelve ==
  /\ WithHistory
  /\ call.history_size = 12
  /\ Len(RecentWindow) = 10
  /\ WindowMeanPrice = 1006500
  /\ ret.features.volatility_5min = Sqrt(8250000)

\* ---------------------------------------------------------------------------
\* fast_random_uint32 over its argument ranges
\* ---------------------------------------------------------------------------
MaxDraws == 6

\* a <= b for 32-bit unsigned numbers; a number of 2^31 and more is written
\* as its two's-complement representative, which is negative
UnsignedLeq(a, b) == IF (a < 0) = (b < 0) THEN a <= b ELSE b < 0

\* pairs <<min, max>> with max >= min: ranges of 1, 2, 10, 9901 and 90001
\* values, the top of the 32-bit range, and the full range 0 .. 2^32 - 1
RangePairs ==
  {<<min, min + span>> : min \in {0, 5, 100, 10000}, span \in {0, 1, 9, 9900, 90000}}
    \cup {<<-10, -10>>, <<-10, -1>>, <<0, -1>>}

\* uint32_t fast_random_uint32(uint32_t min, uint32_t max): xorshift64()
\* stores the new word, then the modulo is taken
CallFastRandomUint32(min, max) ==
  /\ fault = "none"
  /\ \E r \in {xorshift64(rng_state)},
        ub \in (IF DivideByZero(min, max) THEN {"trap", "wrap"} ELSE {"wrap"}) :
       /\ rng_state' = r
       /\ fault' = IF ub = "trap" /\ DivideByZero(min, max) THEN "SIGFPE" ELSE "none"
       /\ ret' = IF ub = "trap" /\ DivideByZero(min, max) THEN NoReturn
                 ELSE [NoReturn EXCEPT !.code = FastRandomUint32(r, min, max)]
       /\ call' = [op |-> "fast_random_uint32", min |-> min, max |-> max, ub |-> ub]
  /\ gt' = NoLocals
  /\ steps' = steps + 1
  /\ UNCHANGED <<symbols, venues, num_symbols, num_venues, total_ticks_generated,
                 generation_time_ns, target_tick_interval_ns, stats, clock>>
  /\ UNCHANGED <<stream, threads>>

NextDraw ==
  /\ steps < MaxDraws
  /\ \E range \in RangePairs : CallFastRandomUint32(range[1], range[2])

SpecDraw == Init /\ [][NextDraw]_vars

\* C24: fast_random_uint32(min, max) with max >= min returns a value r with
\* min <= r <= max, the full range 0 .. 2^32 - 1 included, and leaves the RNG
\* state one xorshift64 step on.
C24_DrawnWithinRange ==
  [][call'.op = "fast_random_uint32" =>
       /\ fault' = "none"
       /\ UnsignedLeq(call'.min, ret'.code)
       /\ UnsignedLeq(ret'.code, call'.max)
       /\ rng_state' = xorshift64(rng_state)]_vars

\* the draw over the full range on a build whose division traps
C24_FullRangeTraps ==
  /\ call.op = "fast_random_uint32"
  /\ call.min = 0 /\ call.max = -1
  /\ DivideByZero(call.min, call.max)
  /\ fault = "SIGFPE"

=============================================================================
